---- MODULE Spec2Model ----
(***************************************************************************)
(* Renfincal (src/src/App.js): the recurring-transaction materializer of   *)
(* the App component and the aggregations of the Dashboard component.      *)
(*                                                                         *)
(* Encodings.                                                              *)
(*   - A date string "YYYY-MM-DD" is the integer YYYYMMDD, so the order of *)
(*     the integers is the lexicographic order of the strings.             *)
(*   - A JavaScript Date is its time value, here in minutes since          *)
(*     1970-01-01T00:00Z (every offset of the model is a whole minute).    *)
(*   - A document is a record that holds only the fields that were         *)
(*     written; Field(doc, k) reads a field the way a JavaScript property  *)
(*     access does (Undefined when absent).                                *)
(***************************************************************************)
EXTENDS Integers, Sequences, FiniteSets, TLC

VARIABLES
    zone,          \* the time zone of the environment the sessions run in
    today,         \* the local calendar date of "now" (YYYYMMDD)
    recurring,     \* store: recurring collection, template id -> template
    transactions,  \* store: transactions collection, in creation order
    incomes,       \* store: incomes collection, in creation order
    liabilities,   \* store: liabilities collection, in creation order
    budgets,       \* store: budgets documents, budgetId -> (category -> amount)
    selectedDate,  \* per session: App state selectedDate (a Date's time value)
    pending,       \* per session: write batches sent and not yet acknowledged
    dirty,         \* per session: a recurring snapshot is waiting to be delivered
    settled,       \* per session: the state of its last batch.commit() promise
    created,       \* number of templates created so far
    currencyRates, \* App state currencyRates
    rateFetch,     \* the latest currency-rate fetch: pending, ok or failed
    assets,        \* store: assets collection, in creation order
    entryFields,   \* EntryPage state that handleSubmit resets
    recurringFields,        \* RecurringPage state that handleSubmit resets
    transactionsToReview,   \* ImportModal state: the rows under review
    currentIndex,           \* ImportModal state: the index of the row shown
    currentTransactionData, \* ImportModal state: the row as edited, or null
    saves,                  \* ImportModal: the handleSave calls waiting for
                            \* their addDoc, each with the state its closure
                            \* was rendered with
    isImportModalOpen,      \* App state isImportModalOpen
    errorLog                \* the errors on the console, oldest first: the
                            \* form of each console.error of the catch
                            \* blocks of the three forms' addDoc, and the
                            \* uncaught errors of callbacks

\* The state of the import (the ImportModal's, and the App's flag that shows
\* it) and of the two entry forms.
importVars == <<transactionsToReview, currentIndex, currentTransactionData,
                saves, isImportModalOpen>>
formVars == <<entryFields, recurringFields>>

vars == <<zone, today, recurring, transactions, incomes, liabilities, budgets,
          selectedDate, pending, dirty, settled, created, currencyRates,
          rateFetch, assets, formVars, importVars, errorLog>>

----------------------------------------------------------------------------
(* Bounds of the model. *)

MaxDocs == 6        \* documents in the transactions or the incomes collection
MaxPending == 1     \* unacknowledged batches per session
MaxTemplates == 1   \* templates the user creates
MaxSaves == 2       \* handleSave calls waiting for their addDoc
MaxEntries == 2     \* documents the user enters by hand
MaxErrors == 1      \* rejected writes that are logged

Sessions == {"s1", "s2"}

\* Document ids of the recurring collection, in the order of a snapshot.
TemplateOrder == <<"r1", "r2">>
TemplateIds == {TemplateOrder[i] : i \in 1..Len(TemplateOrder)}

\* A property that an object does not have; null.
Undefined == "undefined"

\* null where the other values are records, and the empty input field of a
\* number: no form of the model types the number 0.
NoData == <<>>
EmptyNumber == 0

\* The fields of the EntryPage and of the RecurringPage as their handleSubmit
\* leaves them after a write: setAmount(''), setDescription(''), ...
ClearedEntryFields ==
    [amount |-> EmptyNumber, description |-> "", liabilityName |-> "",
     assetName |-> "", isOpeningBalance |-> FALSE]

ClearedRecurringFields == [description |-> "", amount |-> EmptyNumber]
Null == 0

----------------------------------------------------------------------------
(* Calendar arithmetic of the Date object (proleptic Gregorian calendar).  *)

\* Day number (days since 1970-01-01) of the civil date y-m-d, m in 1..12;
\* d may lie outside the month, the day number then runs on.
DaysFromCivil(y, m, d) ==
    LET yy  == IF m <= 2 THEN y - 1 ELSE y
        era == yy \div 400
        yoe == yy - era * 400
        mp  == IF m > 2 THEN m - 3 ELSE m + 9
        doy == (153 * mp + 2) \div 5 + d - 1
        doe == yoe * 365 + yoe \div 4 - yoe \div 100 + doy
    IN  era * 146097 + doe - 719468

\* The civil date [y, m, d] (m in 1..12) of a day number.
CivilFromDays(n) ==
    LET z   == n + 719468
        era == z \div 146097
        doe == z - era * 146097
        yoe == (doe - doe \div 1460 + doe \div 36524 - doe \div 146096) \div 365
        doy == doe - (365 * yoe + yoe \div 4 - yoe \div 100)
        mp  == (5 * doy + 2) \div 153
        d   == doy - (153 * mp + 2) \div 5 + 1
        m   == IF mp < 10 THEN mp + 3 ELSE mp - 9
    IN  [y |-> yoe + era * 400 + (IF m <= 2 THEN 1 ELSE 0), m |-> m, d |-> d]

\* ECMAScript MakeDay: year, 0-based month (any integer), day of month (any
\* integer); overflowing months and days roll over into the next ones.
MakeDay(y, m0, d) ==
    DaysFromCivil(y + m0 \div 12, (m0 % 12) + 1, 1) + d - 1

\* 0 = Sunday ... 6 = Saturday (1970-01-01 was a Thursday).
WeekDay(n) == (n + 4) % 7

\* Day number of the last Sunday of March (m = 3) or October (m = 10) of y.
LastSunday(y, m) ==
    LET last == DaysFromCivil(y, m, 31) IN last - WeekDay(last)

----------------------------------------------------------------------------
(* Time zones of the environment.                                          *)

Zones == {"UTC", "Asia/Kolkata", "Europe/Berlin", "America/Bogota"}

\* Standard offset from UTC, in minutes.
StdOffset(z) ==
    CASE z = "UTC"            -> 0
      [] z = "Asia/Kolkata"   -> 330
      [] z = "Europe/Berlin"  -> 60
      [] z = "America/Bogota" -> -300

\* Daylight saving time is in force at time value t: in Europe/Berlin from
\* 01:00Z on the last Sunday of March to 01:00Z on the last Sunday of October.
IsDST(z, t) ==
    /\ z = "Europe/Berlin"
    /\ LET y == CivilFromDays(t \div 1440).y
       IN  /\ t >= LastSunday(y, 3) * 1440 + 60
           /\ t <  LastSunday(y, 10) * 1440 + 60

\* Offset of local time from UTC at time value t, in minutes.
Offset(z, t) == StdOffset(z) + (IF IsDST(z, t) THEN 60 ELSE 0)

\* ECMAScript LocalTime(t).
LocalTime(z, t) == t + Offset(z, t)

\* ECMAScript UTC(l): the time value of the local time l. A local time that
\* occurs twice is the earlier one; one that is skipped is read with the
\* offset in force before the transition.
LocalToUTC(z, l) ==
    LET early == l - StdOffset(z) - 60
    IN  IF IsDST(z, early) THEN early ELSE l - StdOffset(z)

----------------------------------------------------------------------------
(* The Date methods the program uses.                                      *)

\* new Date("YYYY-MM-DD"): a date-only string is midnight UTC of that day.
ParseISODate(s) ==
    DaysFromCivil(s \div 10000, (s \div 100) % 100, s % 100) * 1440

\* date.toISOString().split('T')[0]: the UTC calendar date of the time value.
ToISODate(t) ==
    LET c == CivilFromDays(t \div 1440)
    IN  c.y * 10000 + c.m * 100 + c.d

\* date.getFullYear(), date.getMonth() (0-based), date.getDate(): local time.
GetFullYear(z, t) == CivilFromDays(LocalTime(z, t) \div 1440).y
GetMonth(z, t) == CivilFromDays(LocalTime(z, t) \div 1440).m - 1
GetDate(z, t) == CivilFromDays(LocalTime(z, t) \div 1440).d

\* new Date(y, m0, d): local midnight of the day MakeDay(y, m0, d).
NewLocalDate(z, y, m0, d) == LocalToUTC(z, MakeDay(y, m0, d) * 1440)

\* date.setMonth(m0): the local month replaced, local day and time kept.
SetMonth(z, t, m0) ==
    LET l == LocalTime(z, t)
    IN  LocalToUTC(z, MakeDay(GetFullYear(z, t), m0, GetDate(z, t)) * 1440
                      + (l % 1440))

\* date.setFullYear(y): the local year replaced, local month, day and time kept.
SetFullYear(z, t, y) ==
    LET l == LocalTime(z, t)
    IN  LocalToUTC(z, MakeDay(y, GetMonth(z, t), GetDate(z, t)) * 1440
                      + (l % 1440))

\* const today = new Date(); today.setHours(0, 0, 0, 0): local midnight of
\* the local date td.
TodayTime(z, td) ==
    NewLocalDate(z, td \div 10000, ((td \div 100) % 100) - 1, td % 100)

----------------------------------------------------------------------------
(* Objects.                                                                *)

\* obj.k
Field(obj, k) == IF k \in DOMAIN obj THEN obj[k] ELSE Undefined

\* { ...a, ...b }
Merge(a, b) ==
    [k \in DOMAIN a \cup DOMAIN b |-> IF k \in DOMAIN b THEN b[k] ELSE a[k]]

\* array.reduce((sum, t) => sum + t[k], 0)
RECURSIVE SumField(_, _)
SumField(seq, k) ==
    IF seq = <<>> THEN 0 ELSE SumField(Tail(seq), k) + Head(seq)[k]

\* The sequences of seqs one after the other.
RECURSIVE Concat(_)
Concat(seqs) == IF seqs = <<>> THEN <<>> ELSE Head(seqs) \o Concat(Tail(seqs))

----------------------------------------------------------------------------
(* The recurring materializer (App, data-rateFetch effect).                 *)

\* A step of one day, whatever the frequency.
AdvanceOneDay(z, frequency, nextDueDate) == nextDueDate + 1440

\* nextDueDate.setMonth(getMonth() + 1) or setFullYear(getFullYear() + 1).
Advance(z, frequency, nextDueDate) ==
    IF frequency = "monthly"
      THEN SetMonth(z, nextDueDate, GetMonth(z, nextDueDate) + 1)
    ELSE IF frequency = "yearly"
      THEN SetFullYear(z, nextDueDate, GetFullYear(z, nextDueDate) + 1)
    ELSE nextDueDate

\* A pass that writes every document to the transactions collection.
MaterializeToTransactions(item, date) ==
    << [op |-> "set", coll |-> "transactions",
        data |-> Merge(item.details, [date |-> date, origin |-> item.id])],
       [op |-> "update", id |-> item.id, lastProcessed |-> date] >>

\* A pass that creates the document and leaves the cursor where the
\* template started.
MaterializeCursorAtStart(item, date) ==
    << [op |-> "set",
        coll |-> IF item.type = "income" THEN "incomes" ELSE "transactions",
        data |-> Merge(item.details, [date |-> date, origin |-> item.id])],
       [op |-> "update", id |-> item.id, lastProcessed |-> item.startDate] >>

\* `if (nextDueDate < today) { batch.set(...); batch.update(...); }` for the
\* due date `date` (a date string). The field origin of a new entry is not in
\* the program: it records the template the entry was materialized from.
Materialize(item, date) ==
    << [op |-> "set",
        coll |-> IF item.type = "income" THEN "incomes" ELSE "transactions",
        data |-> Merge(item.details, [date |-> date, origin |-> item.id])],
       [op |-> "update", id |-> item.id, lastProcessed |-> date] >>

\* `while (nextDueDate < today)` from the advanced date of one pass on: the
\* operations this pass and the passes after it add to the batch.
RECURSIVE WhileLoop(_, _, _, _)
AfterAdvance(z, item, advanced, todayT) ==
    (IF advanced < todayT THEN Materialize(item, ToISODate(advanced)) ELSE <<>>)
      \o WhileLoop(z, item, advanced, todayT)

WhileLoop(z, item, nextDueDate, todayT) ==
    IF ~(nextDueDate < todayT) THEN <<>>
    ELSE AfterAdvance(z, item, Advance(z, item.frequency, nextDueDate), todayT)

\* The number of passes of `while (nextDueDate < today)` from nextDueDate on.
RECURSIVE Iterations(_, _, _, _)
Iterations(z, frequency, nextDueDate, todayT) ==
    IF ~(nextDueDate < todayT) THEN 0
    ELSE 1 + Iterations(z, frequency, Advance(z, frequency, nextDueDate), todayT)

\* A loop whose first candidate is the start date itself.
ProcessItemFromStart(z, item, todayT) ==
    (IF item.lastProcessed = Null /\ ParseISODate(item.startDate) < todayT
       THEN Materialize(item, item.startDate) ELSE <<>>)
      \o WhileLoop(z, item,
                   IF item.lastProcessed # Null THEN ParseISODate(item.lastProcessed)
                                                ELSE ParseISODate(item.startDate),
                   todayT)

\* The body of `for (const item of recurringItems)` for one item.
ProcessItem(z, item, todayT) ==
    WhileLoop(z, item,
              IF item.lastProcessed # Null THEN ParseISODate(item.lastProcessed)
                                           ELSE ParseISODate(item.startDate),
              todayT)

\* processRecurringTransactions(recurringItems), up to batch.commit(): the
\* batch it builds on the local date td in zone z.
processRecurringTransactions(z, recurringItems, td) ==
    Concat([i \in 1..Len(recurringItems) |->
              ProcessItem(z, recurringItems[i], TodayTime(z, td))])

\* snapshot.docs.map(doc => ({ id: doc.id, ...doc.data() })) of a recurring
\* collection rec.
SnapshotDocs(rec, ids) ==
    [n \in 1..Len(ids) |-> Merge([id |-> ids[n]], rec[ids[n]])]

RecurringData(rec) ==
    SnapshotDocs(rec, SelectSeq(TemplateOrder, LAMBDA i : i \in DOMAIN rec))

----------------------------------------------------------------------------
(* The store's write batch.                                                *)

\* The documents a batch sets in collection coll, in order.
SetData(sets) == [n \in 1..Len(sets) |-> sets[n].data]

BatchSets(batch, coll) ==
    SetData(SelectSeq(batch, LAMBDA o : o.op = "set" /\ o.coll = coll))

\* The recurring collection after the batch's updates, applied in order; an
\* update of a missing document is left out here (see BatchValid).
RECURSIVE BatchUpdates(_, _)
BatchUpdates(rec, batch) ==
    IF batch = <<>> THEN rec
    ELSE IF Head(batch).op = "update" /\ Head(batch).id \in DOMAIN rec
      THEN BatchUpdates(
             [rec EXCEPT ![Head(batch).id].lastProcessed = Head(batch).lastProcessed],
             Tail(batch))
      ELSE BatchUpdates(rec, Tail(batch))

\* update() of a document that does not exist fails, and with it the batch.
BatchValid(rec, batch) ==
    \A n \in 1..Len(batch) : batch[n].op = "update" => batch[n].id \in DOMAIN rec

\* What a session's listener sees of the recurring collection: the store's
\* documents with the session's own unacknowledged writes laid over them.
ViewOf(rec, pend) == BatchUpdates(rec, Concat(pend))

\* The listeners whose view of the recurring collection changes are called.
Notify(rec2, pend2) ==
    [s \in Sessions |->
        dirty[s] \/ ViewOf(rec2, pend2[s]) # ViewOf(recurring, pending[s])]

----------------------------------------------------------------------------
(* Inputs.                                                                 *)

\* The local dates on which the sessions run, in order.
Todays == <<20240501, 20240515>>

\* newRecurringItem of RecurringPage.handleSubmit for the form's fields.
NewRecurringItem(type, frequency, startDate, amount, currency) ==
    [type |-> type, frequency |-> frequency, startDate |-> startDate,
     details |->
        IF type = "expense"
          THEN [type |-> type, category |-> "Grocery", payer |-> "Husband",
                amount |-> amount, currency |-> currency, description |-> "rent"]
          ELSE [type |-> type, source |-> "Husband",
                amount |-> amount, currency |-> currency, description |-> "pay"],
     lastProcessed |-> Null]

\* The templates the user submits.
TemplateInputs ==
    { NewRecurringItem("expense", "monthly", 20240115, 5, "EUR"),
      NewRecurringItem("income",  "yearly",  20230301, 7, "INR") }

\* The months the Dashboard is moved through, as 12 * year + month (0-based).
MonthIndex(z, t) == 12 * GetFullYear(z, t) + GetMonth(z, t)
FirstMonth == 12 * 2024 + 3
LastMonth == 12 * 2024 + 4

----------------------------------------------------------------------------
(* The sessions and the store: recurring templates.                        *)

Init ==
    /\ zone \in Zones
    /\ today = Todays[1]
    /\ recurring = <<>>
    /\ transactions = <<>>
    /\ incomes = <<>>
    /\ liabilities = <<>>
    /\ budgets = <<>>
    /\ selectedDate = [s \in Sessions |-> TodayTime(zone, today)]
    /\ pending = [s \in Sessions |-> <<>>]
    /\ dirty = [s \in Sessions |-> TRUE]
    /\ settled = [s \in Sessions |-> "none"]
    /\ created = 0
    /\ currencyRates = [EUR |-> 1, INR |-> 90]
    /\ rateFetch = "pending"
    /\ assets = <<>>
    /\ entryFields = ClearedEntryFields
    /\ recurringFields = ClearedRecurringFields
    /\ transactionsToReview = <<>>
    /\ currentIndex = 0
    /\ currentTransactionData = NoData
    /\ saves = <<>>
    /\ isImportModalOpen = FALSE
    /\ errorLog = <<>>

\* A listener that is called again after every batch.commit(), whether or
\* not the batch changes what it sees.
SendBatchAlwaysNotified(s, batch) ==
    /\ pending' = [pending EXCEPT ![s] = Append(@, batch)]
    /\ dirty' = [dirty EXCEPT ![s] = TRUE]
    /\ settled' = [settled EXCEPT ![s] = "pending"]

\* batch.commit() is called in session s: the batch is sent, and the
\* session's listener is called again if the batch changes what it sees.
SendBatch(s, batch) ==
    /\ pending' = [pending EXCEPT ![s] = Append(@, batch)]
    /\ dirty' = [dirty EXCEPT ![s] =
                   BatchUpdates(ViewOf(recurring, pending[s]), batch)
                     # ViewOf(recurring, pending[s])]
    /\ settled' = [settled EXCEPT ![s] = "pending"]

\* The onSnapshot callback of the recurring collection in session s:
\* setRecurring, then processRecurringTransactions up to batch.commit().
OnSnapshotRecurring(s) ==
    /\ dirty[s]
    /\ Len(pending[s]) < MaxPending
    /\ SendBatch(s, processRecurringTransactions(
                      zone, RecurringData(ViewOf(recurring, pending[s])), today))
    /\ UNCHANGED <<zone, today, recurring, transactions, incomes, liabilities,
                   budgets, selectedDate, created, currencyRates,
                   rateFetch, assets, formVars, importVars, errorLog>>

\* A store that writes the operations one by one: a rejected batch has
\* created its documents and left the cursors.
CommitResultOneByOne(ok, batch) ==
    [recurring    |-> IF ok THEN BatchUpdates(recurring, batch) ELSE recurring,
     transactions |-> transactions \o BatchSets(batch, "transactions"),
     incomes      |-> incomes \o BatchSets(batch, "incomes")]

\* The store's answer to batch.commit(): the contents of the three collections
\* after a batch that was applied (ok) or rejected.
CommitResult(ok, batch) ==
    IF ok
      THEN [recurring    |-> BatchUpdates(recurring, batch),
            transactions |-> transactions \o BatchSets(batch, "transactions"),
            incomes      |-> incomes \o BatchSets(batch, "incomes")]
      ELSE [recurring |-> recurring, transactions |-> transactions,
            incomes |-> incomes]

\* The store holds `after`; the batch leaves the session's queue and the
\* listeners are told.
Settle(s, ok, after) ==
    /\ Len(after.transactions) <= MaxDocs
    /\ Len(after.incomes) <= MaxDocs
    /\ recurring' = after.recurring
    /\ transactions' = after.transactions
    /\ incomes' = after.incomes
    /\ pending' = [pending EXCEPT ![s] = Tail(@)]
    /\ dirty' = Notify(after.recurring, [pending EXCEPT ![s] = Tail(@)])
    /\ settled' = [settled EXCEPT ![s] = IF ok THEN "resolved" ELSE "rejected"]

\* `await batch.commit()` of session s settles.
Commit(s, ok) ==
    /\ pending[s] # <<>>
    /\ ok => BatchValid(recurring, Head(pending[s]))
    /\ Settle(s, ok, CommitResult(ok, Head(pending[s])))
    /\ UNCHANGED <<zone, today, liabilities, budgets, selectedDate, created,
                   currencyRates,
                   rateFetch, assets, formVars, importVars, errorLog>>

CommitOk(s) == Commit(s, TRUE)
CommitFail(s) == Commit(s, FALSE)

\* RecurringPage.handleSubmit: addDoc of a new template; the id addDoc
\* generates is one no document ever had.
AddRecurring(item) ==
    /\ created < MaxTemplates
    /\ created' = created + 1
    /\ recurring' = [i \in DOMAIN recurring \cup {TemplateOrder[created + 1]} |->
                        IF i \in DOMAIN recurring THEN recurring[i] ELSE item]
    /\ dirty' = Notify([i \in DOMAIN recurring \cup {TemplateOrder[created + 1]} |->
                           IF i \in DOMAIN recurring THEN recurring[i] ELSE item],
                       pending)
    /\ recurringFields' = ClearedRecurringFields
    /\ UNCHANGED <<zone, today, transactions, incomes, liabilities, budgets,
                   selectedDate, pending, settled, currencyRates,
                   rateFetch, assets, entryFields, importVars, errorLog>>

\* RecurringPage.handleDelete: deleteDoc of a template.
DeleteRecurring(id) ==
    /\ id \in DOMAIN recurring
    /\ recurring' = [i \in DOMAIN recurring \ {id} |-> recurring[i]]
    /\ dirty' = Notify([i \in DOMAIN recurring \ {id} |-> recurring[i]], pending)
    /\ UNCHANGED <<zone, today, transactions, incomes, liabilities, budgets,
                   selectedDate, pending, settled, created, currencyRates,
                   rateFetch, assets, formVars, importVars, errorLog>>

\* Dashboard.handlePreviousMonth / handleNextMonth (by = -1 / 1) in session
\* s: setSelectedDate, after which the data-rateFetch effect runs again: its
\* new recurring listener is handed a first snapshot and the rates are
\* fetched.
ChangeMonth(s, by) ==
    /\ MonthIndex(zone, selectedDate[s]) + by \in FirstMonth..LastMonth
    /\ selectedDate' = [selectedDate EXCEPT ![s] =
            NewLocalDate(zone, GetFullYear(zone, @), GetMonth(zone, @) + by, 1)]
    /\ dirty' = [dirty EXCEPT ![s] = TRUE]
    /\ rateFetch' = "pending"
    /\ UNCHANGED <<zone, today, recurring, transactions, incomes, liabilities,
                   budgets, pending, settled, created, currencyRates,
                   assets, formVars, importVars, errorLog>>

handlePreviousMonth(s) == ChangeMonth(s, -1)
handleNextMonth(s) == ChangeMonth(s, 1)

\* Time passes: the sessions are next used on the following date of Todays.
Midnight ==
    /\ \E n \in 1..(Len(Todays) - 1) : today = Todays[n] /\ today' = Todays[n + 1]
    /\ UNCHANGED <<zone, recurring, transactions, incomes, liabilities, budgets,
                   selectedDate, pending, dirty, settled, created, currencyRates,
                   rateFetch, assets, formVars, importVars, errorLog>>

Next ==
    \/ \E s \in Sessions : OnSnapshotRecurring(s)
    \/ \E s \in Sessions : CommitOk(s)
    \/ \E s \in Sessions : CommitFail(s)
    \/ \E item \in TemplateInputs : AddRecurring(item)
    \/ \E id \in TemplateIds : DeleteRecurring(id)
    \/ \E s \in Sessions : handlePreviousMonth(s)
    \/ \E s \in Sessions : handleNextMonth(s)
    \/ Midnight

Spec == Init /\ [][Next]_vars

\* Sessions on two days with a due date between them: a monthly template
\* due on the 10th.
MidMonthInputs == { NewRecurringItem("expense", "monthly", 20240310, 5, "EUR") }

NextMidMonth ==
    \/ \E s \in Sessions : OnSnapshotRecurring(s)
    \/ \E s \in Sessions : CommitOk(s)
    \/ \E s \in Sessions : CommitFail(s)
    \/ \E item \in MidMonthInputs : AddRecurring(item)
    \/ \E id \in TemplateIds : DeleteRecurring(id)
    \/ \E s \in Sessions : handlePreviousMonth(s)
    \/ \E s \in Sessions : handleNextMonth(s)
    \/ Midnight

SpecMidMonth == Init /\ [][NextMidMonth]_vars

\* Month ends: monthly templates that start on the 29th, 30th and 31st.
MonthEndInputs ==
    { NewRecurringItem("expense", "monthly", d, 5, "EUR") :
        d \in {20240129, 20240130, 20240131} }

NextMonthEnd ==
    \/ \E s \in Sessions : OnSnapshotRecurring(s)
    \/ \E s \in Sessions : CommitOk(s)
    \/ \E s \in Sessions : CommitFail(s)
    \/ \E item \in MonthEndInputs : AddRecurring(item)
    \/ \E id \in TemplateIds : DeleteRecurring(id)
    \/ \E s \in Sessions : handlePreviousMonth(s)
    \/ \E s \in Sessions : handleNextMonth(s)
    \/ Midnight

SpecMonthEnd == Init /\ [][NextMonthEnd]_vars

\* Late starts: templates that start shortly before, on and after the days
\* of the sessions.
LateStartInputs ==
    { NewRecurringItem("expense", "monthly", d, 5, "EUR") :
        d \in {20240415, 20240501, 20240515, 20240601} }
    \cup { NewRecurringItem("income", "yearly", 20230515, 7, "INR") }

NextLateStart ==
    \/ \E s \in Sessions : OnSnapshotRecurring(s)
    \/ \E s \in Sessions : CommitOk(s)
    \/ \E s \in Sessions : CommitFail(s)
    \/ \E item \in LateStartInputs : AddRecurring(item)
    \/ \E id \in TemplateIds : DeleteRecurring(id)
    \/ \E s \in Sessions : handlePreviousMonth(s)
    \/ \E s \in Sessions : handleNextMonth(s)
    \/ Midnight

SpecLateStart == Init /\ [][NextLateStart]_vars

\* The feedback loop left to itself: the sessions start on a store that
\* holds one template, today stays, the user changes nothing, and the store
\* accepts every batch. Every listener that has been notified is called, and
\* every batch sent is settled.
InitFeedback ==
    /\ zone \in Zones
    /\ today = Todays[1]
    /\ \E item \in TemplateInputs \cup MidMonthInputs \cup MonthEndInputs
                   \cup LateStartInputs :
          recurring = [id \in {TemplateOrder[1]} |-> item]
    /\ transactions = <<>>
    /\ incomes = <<>>
    /\ liabilities = <<>>
    /\ budgets = <<>>
    /\ selectedDate = [s \in Sessions |-> TodayTime(zone, today)]
    /\ pending = [s \in Sessions |-> <<>>]
    /\ dirty = [s \in Sessions |-> TRUE]
    /\ settled = [s \in Sessions |-> "none"]
    /\ created = 1
    /\ currencyRates = [EUR |-> 1, INR |-> 90]
    /\ rateFetch = "pending"
    /\ assets = <<>>
    /\ entryFields = ClearedEntryFields
    /\ recurringFields = ClearedRecurringFields
    /\ transactionsToReview = <<>>
    /\ currentIndex = 0
    /\ currentTransactionData = NoData
    /\ saves = <<>>
    /\ isImportModalOpen = FALSE
    /\ errorLog = <<>>

NextFeedback ==
    \/ \E s \in Sessions : OnSnapshotRecurring(s)
    \/ \E s \in Sessions : CommitOk(s)

\* The listener of session s can be called: ENABLED <<OnSnapshotRecurring(s)>>_vars.
CanRun(s) == dirty[s] /\ Len(pending[s]) < MaxPending

\* Weak fairness of the callback, WF_vars(OnSnapshotRecurring(s)), with its
\* enabling condition written out.
CallbackIsCalled(s) ==
    []<>(~CanRun(s)) \/ []<><<OnSnapshotRecurring(s)>>_vars

SpecFeedback ==
    /\ InitFeedback
    /\ [][NextFeedback]_vars
    /\ \A s \in Sessions : CallbackIsCalled(s)
    /\ \A s \in Sessions : WF_vars(CommitOk(s))

----------------------------------------------------------------------------
(* The Dashboard component.                                                *)

\* const selectedMonth = selectedDate.getMonth(), selectedYear = ...
selectedMonth(z, sel) == GetMonth(z, sel)
selectedYear(z, sel) == GetFullYear(z, sel)

\* A filter that lets every currency through.
filterByCurrencyAny(item, currency) == TRUE

\* calculateBalances: the filters and the sum.
filterByCurrency(item, currency) == Field(item, "currency") = currency

filterByDate(z, item, startOfSelectedMonth) ==
    ParseISODate(item.date) < startOfSelectedMonth

filterByMonth(z, item, selY, selM) ==
    /\ GetMonth(z, ParseISODate(item.date)) = selM
    /\ GetFullYear(z, ParseISODate(item.date)) = selY

sumAmount(items) == SumField(items, "amount")

\* incomes minus the transactions of the three outgoing types plus the
\* savings withdrawals: the expression of `opening` and of `cashFlow`.
NetOf(incs, txs) ==
    sumAmount(incs)
      - sumAmount(SelectSeq(txs, LAMBDA t :
            Field(t, "type") \in {"expense", "savings", "liabilityPayment"}))
      + sumAmount(SelectSeq(txs, LAMBDA t : Field(t, "type") = "savingsWithdrawal"))

\* const opening = prevIncomes - ... + ...
Opening(z, txs, incs, selY, selM, currency) ==
    NetOf(SelectSeq(incs, LAMBDA i : filterByCurrency(i, currency)
                     /\ filterByDate(z, i, NewLocalDate(z, selY, selM, 1))),
          SelectSeq(txs, LAMBDA t : filterByCurrency(t, currency)
                     /\ filterByDate(z, t, NewLocalDate(z, selY, selM, 1))))

\* const cashFlow = monthlyIncomesTotal - ... + ...
CashFlow(z, txs, incs, selY, selM, currency) ==
    NetOf(SelectSeq(incs, LAMBDA i : filterByCurrency(i, currency)
                     /\ filterByMonth(z, i, selY, selM)),
          SelectSeq(txs, LAMBDA t : filterByCurrency(t, currency)
                     /\ filterByMonth(z, t, selY, selM)))

\* A closing balance that leaves the opening balance out.
BalancesOfTheMonth(opening, cashFlow) ==
    [opening |-> opening, cashFlow |-> cashFlow, closing |-> cashFlow]

\* return { opening, cashFlow, closing: opening + cashFlow }
Balances(opening, cashFlow) ==
    [opening |-> opening, cashFlow |-> cashFlow, closing |-> opening + cashFlow]

calculateBalances(z, txs, incs, selY, selM, currency) ==
    Balances(Opening(z, txs, incs, selY, selM, currency),
             CashFlow(z, txs, incs, selY, selM, currency))

\* eurBalances / inrBalances as the Dashboard of session s shows them.
DashboardBalances(s, currency) ==
    calculateBalances(zone, transactions, incomes,
                      selectedYear(zone, selectedDate[s]),
                      selectedMonth(zone, selectedDate[s]), currency)

\* Deposits that leave the opening balances out.
calculateByCurrencyNoOpening(personTransactions, currency) ==
    sumAmount(SelectSeq(personTransactions, LAMBDA t :
        Field(t, "type") = "savings" /\ Field(t, "currency") = currency))
      - sumAmount(SelectSeq(personTransactions, LAMBDA t :
          Field(t, "type") = "savingsWithdrawal" /\ Field(t, "currency") = currency))

\* calculateDetailedSavings: deposits - withdrawals of one currency.
calculateByCurrency(personTransactions, currency) ==
    sumAmount(SelectSeq(personTransactions, LAMBDA t :
        Field(t, "type") \in {"savings", "openingBalance"}
          /\ Field(t, "currency") = currency))
      - sumAmount(SelectSeq(personTransactions, LAMBDA t :
          Field(t, "type") = "savingsWithdrawal" /\ Field(t, "currency") = currency))

calculateDetailedSavings(txs, person) ==
    [eur |-> calculateByCurrency(
               SelectSeq(txs, LAMBDA t : Field(t, "saver") = person), "EUR"),
     inr |-> calculateByCurrency(
               SelectSeq(txs, LAMBDA t : Field(t, "saver") = person), "INR")]

husbandSavings == calculateDetailedSavings(transactions, "Husband")
wifeSavings == calculateDetailedSavings(transactions, "Wife")

\* liabilityDetails: one liability's payments and balance.
LiabilityPayments(txs, liability) ==
    sumAmount(SelectSeq(txs, LAMBDA t :
        Field(t, "type") = "liabilityPayment"
          /\ Field(t, "liabilityId") = liability.id))

\* A balance that stops at zero.
LiabilityDetailClamped(txs, liability) ==
    Merge(liability,
          [paid |-> LiabilityPayments(txs, liability),
           balance |-> IF liability.totalAmount > LiabilityPayments(txs, liability)
                         THEN liability.totalAmount - LiabilityPayments(txs, liability)
                         ELSE 0])

LiabilityDetail(txs, liability) ==
    Merge(liability,
          [paid |-> LiabilityPayments(txs, liability),
           balance |-> liability.totalAmount - LiabilityPayments(txs, liability)])

liabilityDetails(txs, liabs) ==
    [n \in 1..Len(liabs) |-> LiabilityDetail(txs, liabs[n])]

\* The assets of every currency summed together.
TotalAssetsAnyCurrency(as, currency) == SumField(as, "value")

\* totalAssetsEUR / totalAssetsINR and totalLiabilitiesEUR / totalLiabilitiesINR.
TotalAssets(as, currency) ==
    SumField(SelectSeq(as, LAMBDA a : Field(a, "currency") = currency), "value")

TotalLiabilities(details, currency) ==
    SumField(SelectSeq(details, LAMBDA l : Field(l, "currency") = currency),
             "balance")

\* netWorthEUR and netWorthINR.
netWorthEUR(as, txs, liabs) ==
    TotalAssets(as, "EUR")
      + (calculateDetailedSavings(txs, "Husband").eur
           + calculateDetailedSavings(txs, "Wife").eur)
      - TotalLiabilities(liabilityDetails(txs, liabs), "EUR")

netWorthINR(as, txs, liabs) ==
    TotalAssets(as, "INR")
      + (calculateDetailedSavings(txs, "Husband").inr
           + calculateDetailedSavings(txs, "Wife").inr)
      - TotalLiabilities(liabilityDetails(txs, liabs), "INR")

\* toEUR of expensesByCategory. The INR amounts of the model are multiples
\* of the INR rate, so the quotient is exact.
toEUR(amount, currency, rates) ==
    IF currency = "INR" THEN amount \div rates.INR ELSE amount

\* monthlyTransactions.filter(t => t.type === 'expense'): the month's expenses.
MonthlyExpenses(z, txs, selY, selM) ==
    SelectSeq(txs, LAMBDA t : filterByMonth(z, t, selY, selM)
                              /\ Field(t, "type") = "expense")

\* The reduce that builds expensesByCategory, from the accumulator acc on.
RECURSIVE ExpensesReduce(_, _, _)
ExpensesReduce(acc, expenses, rates) ==
    IF expenses = <<>> THEN acc
    ELSE ExpensesReduce(
           Merge(acc,
                 [c \in {Field(Head(expenses), "category")} |->
                    (IF c \in DOMAIN acc THEN acc[c] ELSE 0)
                      + toEUR(Head(expenses).amount,
                              Field(Head(expenses), "currency"), rates)]),
           Tail(expenses), rates)

expensesByCategory(z, txs, selY, selM, rates) ==
    ExpensesReduce(<<>>, MonthlyExpenses(z, txs, selY, selM), rates)

\* [...new Set([...Object.keys(budgets), ...Object.keys(expensesByCategory)])]
allCategoryNames(budget, expenses) == DOMAIN budget \cup DOMAIN expenses

\* budgetId of the data-rateFetch effect, `${year}-${month}`, as 100 * year +
\* month, and the budgets state: the document of that id, {} when there is none.
BudgetId(z, sel) == 100 * GetFullYear(z, sel) + GetMonth(z, sel) + 1

BudgetsOf(z, sel) ==
    IF BudgetId(z, sel) \in DOMAIN budgets THEN budgets[BudgetId(z, sel)] ELSE <<>>

\* One row of "Monthly Expenses vs Budget": budgets[category] || 0 and
\* expensesByCategory[category] || 0.
BudgetRow(budget, expenses, category) ==
    [category |-> category,
     budget |-> IF category \in DOMAIN budget THEN budget[category] ELSE 0,
     actual |-> IF category \in DOMAIN expenses THEN expenses[category] ELSE 0]

\* const isOverBudget = actual > budget
isOverBudget(budget, actual) == actual > budget

\* A flag that is raised without a budget.
OverBudgetShownNoBudget(row) == isOverBudget(row.budget, row.actual)

\* {isOverBudget && budget > 0 && <p>Over budget!</p>}: the row is flagged.
OverBudgetShown(row) == isOverBudget(row.budget, row.actual) /\ row.budget > 0

\* The rows the Dashboard renders: allCategoryNames.map(category => ...).
BudgetRows(budget, expenses) ==
    {BudgetRow(budget, expenses, c) : c \in allCategoryNames(budget, expenses)}

DashboardBudgetRows(s) ==
    BudgetRows(BudgetsOf(zone, selectedDate[s]),
               expensesByCategory(zone, transactions,
                                  selectedYear(zone, selectedDate[s]),
                                  selectedMonth(zone, selectedDate[s]),
                                  currencyRates))

----------------------------------------------------------------------------
(* The entry form, the budget form and the ledger.                         *)

Currencies == {"EUR", "INR"}

\* The state of the EntryPage form when it is submitted.
Form(entryType, isOpeningBalance, date, amount, currency, category, liabilityId) ==
    [entryType |-> entryType, isOpeningBalance |-> isOpeningBalance,
     date |-> date, amount |-> amount, currency |-> currency,
     category |-> category, liabilityId |-> liabilityId,
     payer |-> "Husband", saver |-> "Husband", source |-> "Husband",
     description |-> "", liabilityName |-> "loan", assetName |-> "house"]

\* EntryPage.handleSubmit: collectionName of the switch.
CollectionName(form) ==
    CASE form.entryType \in {"expense", "savings", "savingsWithdrawal", "payLiability"}
           -> "transactions"
      [] form.entryType = "income" -> "incomes"
      [] form.entryType = "addLiability" -> "liabilities"
      [] form.entryType = "asset" -> "assets"

\* EntryPage.handleSubmit: docData of the switch.
DocData(form) ==
    Merge([date |-> form.date, description |-> form.description],
      CASE form.entryType = "expense" ->
             [type |-> "expense", category |-> form.category, payer |-> form.payer,
              amount |-> form.amount, currency |-> form.currency]
        [] form.entryType = "savings" ->
             [type |-> IF form.isOpeningBalance THEN "openingBalance" ELSE "savings",
              saver |-> form.saver, amount |-> form.amount,
              currency |-> form.currency]
        [] form.entryType = "savingsWithdrawal" ->
             [type |-> "savingsWithdrawal", saver |-> form.saver,
              amount |-> form.amount, currency |-> form.currency]
        [] form.entryType = "income" ->
             [source |-> form.source, type |-> "income", amount |-> form.amount,
              currency |-> form.currency]
        [] form.entryType = "addLiability" ->
             [name |-> form.liabilityName, totalAmount |-> form.amount,
              currency |-> form.currency]
        [] form.entryType = "payLiability" ->
             [type |-> "liabilityPayment", liabilityId |-> form.liabilityId,
              payer |-> form.payer, amount |-> form.amount,
              currency |-> form.currency]
        [] form.entryType = "asset" ->
             [name |-> form.assetName, value |-> form.amount,
              currency |-> form.currency])

\* Document ids of the liabilities collection, in the order of creation.
LiabilityOrder == <<"L1", "L2", "L3", "L4">>

\* EntryPage.handleSubmit on the fields `form`, the addDoc succeeding: the
\* document is appended and the fields are reset. The liabilities snapshot
\* gives each liability its document id.
handleSubmit(form) ==
    /\ Len(transactions) + Len(incomes) + Len(liabilities) + Len(assets) - 1
         < MaxEntries
    /\ form.entryType = "payLiability" =>
         \E n \in 1..Len(liabilities) : liabilities[n].id = form.liabilityId
    /\ transactions' = IF CollectionName(form) = "transactions"
                         THEN Append(transactions, DocData(form)) ELSE transactions
    /\ incomes' = IF CollectionName(form) = "incomes"
                    THEN Append(incomes, DocData(form)) ELSE incomes
    /\ liabilities' =
         IF CollectionName(form) = "liabilities"
           THEN Append(liabilities,
                       Merge([id |-> LiabilityOrder[Len(liabilities) + 1]],
                             DocData(form)))
           ELSE liabilities
    /\ assets' = IF CollectionName(form) = "assets"
                   THEN Append(assets, DocData(form)) ELSE assets
    /\ entryFields' = ClearedEntryFields
    /\ UNCHANGED <<zone, today, recurring, budgets, selectedDate, pending, dirty,
                   settled, created, currencyRates,
                   rateFetch, recurringFields, importVars, errorLog>>

\* BudgetPage.handleSaveBudgets in session s, the form holding the month's
\* budgets with `edits` typed over them: setDoc(..., newBudgets, {merge: true}).
handleSaveBudgets(s, edits) ==
    /\ budgets' =
         [id \in DOMAIN budgets \cup {BudgetId(zone, selectedDate[s])} |->
            IF id = BudgetId(zone, selectedDate[s])
              THEN Merge(BudgetsOf(zone, selectedDate[s]),
                         Merge(BudgetsOf(zone, selectedDate[s]), edits))
              ELSE budgets[id]]
    /\ UNCHANGED <<zone, today, recurring, transactions, incomes, liabilities,
                   selectedDate, pending, dirty, settled, created, currencyRates,
                   rateFetch, assets, formVars, importVars, errorLog>>

\* The ledger before the first entry of a run of the model: one liability.
InitLedger ==
    /\ zone \in Zones
    /\ today = Todays[1]
    /\ recurring = <<>>
    /\ transactions = <<>>
    /\ incomes = <<>>
    /\ liabilities = << [id |-> "L1", date |-> 20240105, description |-> "",
                         name |-> "loan", totalAmount |-> 10, currency |-> "EUR"] >>
    /\ budgets = <<>>
    /\ selectedDate = [s \in Sessions |-> TodayTime(zone, today)]
    /\ pending = [s \in Sessions |-> <<>>]
    /\ dirty = [s \in Sessions |-> TRUE]
    /\ settled = [s \in Sessions |-> "none"]
    /\ created = 0
    /\ currencyRates = [EUR |-> 1, INR |-> 90]
    /\ rateFetch = "pending"
    /\ assets = <<>>
    /\ entryFields = ClearedEntryFields
    /\ recurringFields = ClearedRecurringFields
    /\ transactionsToReview = <<>>
    /\ currentIndex = 0
    /\ currentTransactionData = NoData
    /\ saves = <<>>
    /\ isImportModalOpen = FALSE
    /\ errorLog = <<>>

\* Balances: entries of every type around the first days of the months the
\* Dashboard shows. The amount tells the type.
EntryDates == {20240331, 20240401, 20240501}

AmountOf(entryType, isOpeningBalance) ==
    CASE entryType = "expense" -> 1
      [] entryType = "savings" /\ ~isOpeningBalance -> 3
      [] entryType = "savingsWithdrawal" -> 9
      [] entryType = "income" -> 27
      [] entryType = "payLiability" -> 81
      [] entryType = "savings" /\ isOpeningBalance -> 243

BalanceForms ==
    { Form(t, FALSE, d, AmountOf(t, FALSE), c, "Grocery", "L1") :
        t \in {"expense", "savings", "savingsWithdrawal", "income", "payLiability"},
        d \in EntryDates, c \in Currencies }
    \cup { Form("savings", TRUE, d, AmountOf("savings", TRUE), c, "Grocery", "L1") :
             d \in EntryDates, c \in Currencies }

NextBalances ==
    \/ \E form \in BalanceForms : handleSubmit(form)
    \/ handlePreviousMonth("s1")
    \/ handleNextMonth("s1")

SpecBalances == InitLedger /\ [][NextBalances]_vars

\* The same entries with the Dashboard left on its month: the balances of
\* every month are computed from the ledger alone.
NextContinuity == \E form \in BalanceForms : handleSubmit(form)

SpecContinuity == InitLedger /\ [][NextContinuity]_vars

\* Liabilities: new liabilities and payments towards them.
LiabilityForms ==
    { Form("addLiability", FALSE, 20240110, 10, c, "Grocery", "") : c \in Currencies }
    \cup { Form("payLiability", FALSE, 20240410, a, c, "Grocery", id) :
             a \in {4, 7}, c \in Currencies, id \in {"L1", "L2"} }
    \cup { Form("expense", FALSE, 20240410, 5, "EUR", "Grocery", "L1") }

NextLiabilities ==
    \E form \in LiabilityForms : handleSubmit(form)

SpecLiabilities == InitLedger /\ [][NextLiabilities]_vars

\* Budgets: expenses by category and the budgets of the months.
BudgetForms ==
    { Form("expense", FALSE, d, IF c = "EUR" THEN 5 ELSE 180, c, cat, "") :
        d \in {20240401, 20240501, 20240601}, c \in Currencies,
        cat \in {"Grocery", "Rent"} }
    \cup { Form("savings", FALSE, 20240501, 3, "EUR", "Grocery", "") }

BudgetEdits == { [Grocery |-> 4], [Utilities |-> 0] }

NextBudgets ==
    \/ \E form \in BudgetForms : handleSubmit(form)
    \/ \E edits \in BudgetEdits : handleSaveBudgets("s1", edits)
    \/ handlePreviousMonth("s1")
    \/ handleNextMonth("s1")

SpecBudgets == InitLedger /\ [][NextBudgets]_vars

\* Savings: deposits, opening balances and withdrawals of both persons in
\* both currencies, in two months.
Persons == {"Husband", "Wife"}

SavingsForms ==
    { [Form(t[1], t[2], d, AmountOf(t[1], t[2]), c, "Grocery", "L1")
         EXCEPT !.saver = p] :
        t \in {<<"savings", FALSE>>, <<"savings", TRUE>>,
               <<"savingsWithdrawal", FALSE>>},
        d \in {20240331, 20240501}, c \in Currencies, p \in Persons }
    \cup { Form("expense", FALSE, 20240501, AmountOf("expense", FALSE), "EUR",
                "Grocery", "L1") }

NextSavings == \E form \in SavingsForms : handleSubmit(form)

SpecSavings == InitLedger /\ [][NextSavings]_vars

\* Net worth: assets, savings of both persons, liabilities and their payments
\* in both currencies. The amount tells the kind of entry.
NetWorthForms ==
    { Form("asset", FALSE, 20240401, 729, c, "Grocery", "L1") : c \in Currencies }
    \cup { Form("addLiability", FALSE, 20240401, 2187, c, "Grocery", "L1") :
             c \in Currencies }
    \cup { Form("payLiability", FALSE, 20240401, AmountOf("payLiability", FALSE),
                c, "Grocery", id) : c \in Currencies, id \in {"L1", "L2"} }
    \cup { [Form(t, FALSE, 20240401, AmountOf(t, FALSE), c, "Grocery", "L1")
              EXCEPT !.saver = p] :
             t \in {"savings", "savingsWithdrawal"}, c \in Currencies,
             p \in Persons }

NextNetWorth == \E form \in NetWorthForms : handleSubmit(form)

SpecNetWorth == InitLedger /\ [][NextNetWorth]_vars

----------------------------------------------------------------------------
(* The currency rates.                                                     *)

\* What the fetch of the rates can end with: a rejected promise (network
\* error, or a body res.json() cannot parse), or the parsed body `data`.
RateResponses ==
    { [rejected |-> TRUE],
      [rejected |-> FALSE, data |-> [rates |-> [INR |-> 60, USD |-> 1]]],
      [rejected |-> FALSE, data |-> [rates |-> [USD |-> 1]]],
      [rejected |-> FALSE, data |-> [error |-> "quota"]] }

\* if (data.rates && data.rates.INR)
HasINR(data) ==
    /\ "rates" \in DOMAIN data
    /\ "INR" \in DOMAIN data.rates
    /\ data.rates.INR # 0

\* The fetch of the data-fetching effect settles with `response`:
\* .then(data => { if (...) setCurrencyRates({ EUR: 1, INR: data.rates.INR }) })
\* .catch(err => console.error(...)).
RateFetchSettles(response) ==
    /\ rateFetch = "pending"
    /\ rateFetch' = IF ~response.rejected /\ HasINR(response.data)
                      THEN "ok" ELSE "failed"
    /\ currencyRates' =
         IF ~response.rejected /\ HasINR(response.data)
           THEN [EUR |-> 1, INR |-> response.data.rates.INR]
           ELSE currencyRates
    /\ UNCHANGED <<zone, today, recurring, transactions, incomes, liabilities,
                   budgets, selectedDate, pending, dirty, settled, created,
                   assets, formVars, importVars, errorLog>>

NextRates ==
    \/ Next
    \/ \E response \in RateResponses : RateFetchSettles(response)

SpecRates == Init /\ [][NextRates]_vars

----------------------------------------------------------------------------
(* The History page.                                                       *)

\* cutoffDate of autoDeleteOldTransactions when the page is mounted at the
\* time `now`: three years back in local time, written as a UTC date.
CutoffDate(z, now) ==
    ToISODate(SetFullYear(z, now, GetFullYear(z, now) - 3))

\* The documents of a collection that the query where("date", "<",
\* cutoffDate) does not return: those the batch of deletes leaves.
KeptDocs(docs, cutoffDate) ==
    SelectSeq(docs, LAMBDA d : ~(d.date < cutoffDate))

\* The minutes of the day at which the page is mounted.
MountTimes == {0, 720, 1439}

\* HistoryPage is mounted at `minutes` past local midnight and its effect
\* runs autoDeleteOldTransactions: one batch of deletes for transactions,
\* then one for incomes. A commit that fails ends the function: `done` is the
\* number of collections whose deletes were committed.
autoDeleteOldTransactions(minutes, done) ==
    /\ transactions' =
         IF done >= 1
           THEN KeptDocs(transactions,
                         CutoffDate(zone, TodayTime(zone, today) + minutes))
           ELSE transactions
    /\ incomes' =
         IF done >= 2
           THEN KeptDocs(incomes,
                         CutoffDate(zone, TodayTime(zone, today) + minutes))
           ELSE incomes
    /\ UNCHANGED <<zone, today, recurring, liabilities, budgets, selectedDate,
                   pending, dirty, settled, created, currencyRates,
                   rateFetch, assets, formVars, importVars, errorLog>>

\* History: entries dated around the day three years before today, and one
\* of this year.
HistoryForms ==
    { Form(t, FALSE, d, AmountOf(t, FALSE), "EUR", "Grocery", "L1") :
        t \in {"expense", "income"},
        d \in {20210430, 20210501, 20210502, 20240401} }

NextHistory ==
    \/ \E form \in HistoryForms : handleSubmit(form)
    \/ \E minutes \in MountTimes, done \in 0..2 :
          autoDeleteOldTransactions(minutes, done)

SpecHistory == InitLedger /\ [][NextHistory]_vars

----------------------------------------------------------------------------
(* The CSV import. Papa.parse hands over results.data, a sequence of rows, *)
(* each a sequence of cells. A cell is a text: empty, a date written       *)
(* DD/MM/YYYY with two-digit day and month, a date written YYYY-MM-DD, the *)
(* decimal text of a number >= 0, or another text (one that begins with no *)
(* digit).                                                                 *)

EmptyCell == [kind |-> "empty"]
DateCell(d, m, y) == [kind |-> "date", d |-> d, m |-> m, y |-> y]
IsoCell(date) == [kind |-> "iso", date |-> date]
NumberCell(n) == [kind |-> "number", value |-> n]
TextCell(t) == [kind |-> "text", text |-> t]

\* row[k] of a row that has no such column.
UndefinedCell == [kind |-> "undefined"]

\* NaN: a number that is above no number. The numbers of the cells are >= 0.
NaN == -1

\* The truth value of a cell: a non-empty string.
Truthy(cell) == cell.kind \notin {"empty", "undefined"}

\* parseFloat(cell): the number the text begins with.
parseFloat(cell) ==
    CASE cell.kind = "number" -> cell.value
      [] cell.kind = "date" -> cell.d
      [] cell.kind = "iso" -> cell.date \div 10000
      [] OTHER -> NaN

\* The number a cell is compared as in `debit > 0`.
ToNumber(cell) ==
    CASE cell.kind = "number" -> cell.value
      [] cell.kind = "empty" -> 0
      [] OTHER -> NaN

\* The description of a row as a string.
CellText(cell) ==
    CASE cell.kind = "text" -> cell.text
      [] cell.kind = "empty" -> ""
      [] OTHER -> Undefined

\* row[k - 1] in JavaScript's counting.
RowAt(row, k) == IF k <= Len(row) THEN row[k] ELSE UndefinedCell

\* .map(row => ({ date: row[0], description: row[1], debit: row[2], credit: row[3] }))
ParsedRow(row) ==
    [date |-> RowAt(row, 1), description |-> CellText(RowAt(row, 2)),
     debit |-> RowAt(row, 3), credit |-> RowAt(row, 4)]

\* .filter(row => row.date && (row.debit || row.credit))
HasData(row) == Truthy(row.date) /\ (Truthy(row.debit) \/ Truthy(row.credit))

\* results.data.slice(1)
Slice1(data) == IF data = <<>> THEN <<>> ELSE Tail(data)

parsedData(data) ==
    SelectSeq([n \in 1..Len(Slice1(data)) |-> ParsedRow(Slice1(data)[n])], HasData)

\* new Date(`${dateParts[2]}-${dateParts[1]}-${dateParts[0]}`) is a valid
\* Date: the three parts of a DD/MM/YYYY text (a DateCell names a day of the
\* calendar). Of a text without two `/` it is new Date("undefined-..."), an
\* Invalid Date, and toISOString throws a RangeError.
DateParses(cell) == cell.kind = "date"

\* formattedDate: the text parsed as a UTC date and written as one.
formattedDate(cell) ==
    ToISODate(ParseISODate(10000 * cell.y + 100 * cell.m + cell.d))

formattedData(data) ==
    [n \in 1..Len(parsedData(data)) |->
        Merge(parsedData(data)[n],
              [date |-> formattedDate(parsedData(data)[n].date)])]

\* The effect on [transactionsToReview, currentIndex, categories]: the
\* currentTransactionData of the row shown, with its default type.
IsDebit(current) == Truthy(current.debit) /\ parseFloat(current.debit) > 0

DefaultData(current) ==
    [date |-> current.date,
     description |-> current.description,
     amount |-> parseFloat(IF IsDebit(current) THEN current.debit
                           ELSE current.credit),
     type |-> IF IsDebit(current) THEN "expense" ELSE "income",
     category |-> "Rent/Mortgage",
     payer |-> "Husband", saver |-> "Husband", source |-> "Husband"]

CurrentData(review, index) ==
    IF Len(review) > 0 /\ index < Len(review)
      THEN DefaultData(review[index + 1]) ELSE NoData

\* The three fields of the ImportModal state.
ImportState(review, index) ==
    <<review, index, CurrentData(review, index)>>

SetImport(state) ==
    /\ transactionsToReview' = state[1]
    /\ currentIndex' = state[2]
    /\ currentTransactionData' = state[3]

\* The "Import from CSV" button of the App.
OpenImportModal ==
    /\ ~isImportModalOpen
    /\ isImportModalOpen' = TRUE
    /\ UNCHANGED <<zone, today, recurring, transactions, incomes, liabilities,
                   budgets, selectedDate, pending, dirty, settled, created,
                   currencyRates, rateFetch, assets, formVars,
                   transactionsToReview, currentIndex, currentTransactionData,
                   saves, errorLog>>

\* ImportModal.handleFileChange, the `complete` callback on results.data. The
\* file input is rendered while there is nothing to review. A date that
\* does not parse makes the callback throw before any state is set; the
\* browser reports the uncaught RangeError on the console.
handleFileChange(data) ==
    /\ isImportModalOpen
    /\ transactionsToReview = <<>>
    /\ IF \A n \in 1..Len(parsedData(data)) : DateParses(parsedData(data)[n].date)
         THEN /\ SetImport(ImportState(formattedData(data), 0))
              /\ UNCHANGED <<saves, isImportModalOpen, errorLog>>
         ELSE /\ Len(errorLog) < MaxErrors
              /\ errorLog' = Append(errorLog, "RangeError")
              /\ UNCHANGED importVars
    /\ UNCHANGED <<zone, today, recurring, transactions, incomes, liabilities,
                   budgets, selectedDate, pending, dirty, settled, created,
                   currencyRates, rateFetch, assets, formVars>>

\* ImportModal.handleNext: the state it sets, and the effect after it.
AfterNext ==
    IF currentIndex < Len(transactionsToReview) - 1
      THEN ImportState(transactionsToReview, currentIndex + 1)
      ELSE ImportState(<<>>, 0)

\* onClose() of handleNext, called at the end of the review.
ClosedAfter(index, length) ==
    IF index < length - 1 THEN isImportModalOpen ELSE FALSE

\* The Skip button.
handleNext ==
    /\ isImportModalOpen
    /\ currentTransactionData # NoData
    /\ SetImport(AfterNext)
    /\ isImportModalOpen' = ClosedAfter(currentIndex, Len(transactionsToReview))
    /\ UNCHANGED saves
    /\ UNCHANGED <<zone, today, recurring, transactions, incomes, liabilities,
                   budgets, selectedDate, pending, dirty, settled, created,
                   currencyRates, rateFetch, assets, formVars, errorLog>>

\* The options of the "Transaction Type" select for the row shown.
TypeOptions ==
    IF ToNumber(transactionsToReview[currentIndex + 1].debit) > 0
      THEN {"expense", "savings"} ELSE {"income", "savingsWithdrawal"}

\* The user picks a type: setCurrentTransactionData({...data, type}).
SetType(type) ==
    /\ isImportModalOpen
    /\ currentTransactionData # NoData
    /\ type \in TypeOptions
    /\ currentTransactionData' = Merge(currentTransactionData, [type |-> type])
    /\ UNCHANGED <<zone, today, recurring, transactions, incomes, liabilities,
                   budgets, selectedDate, pending, dirty, settled, created,
                   currencyRates, rateFetch, assets, formVars,
                   transactionsToReview, currentIndex, saves,
                   isImportModalOpen, errorLog>>

\* A switch that sends every row of a credit to the incomes.
ImportCollectionOfCredits(data) ==
    IF data.type \in {"income", "savingsWithdrawal"} THEN "incomes"
    ELSE "transactions"

\* ImportModal.handleSave: collectionName and docData.
ImportCollection(data) ==
    IF data.type = "income" THEN "incomes" ELSE "transactions"

ImportDocData(data) ==
    Merge([date |-> data.date, description |-> data.description,
           amount |-> data.amount, currency |-> "EUR"],
      CASE data.type = "expense" ->
             [type |-> "expense", category |-> data.category, payer |-> data.payer]
        [] data.type = "savings" -> [type |-> "savings", saver |-> data.saver]
        [] data.type = "income" -> [type |-> "income", source |-> data.source]
        [] data.type = "savingsWithdrawal" ->
             [type |-> "savingsWithdrawal", saver |-> data.saver])

\* ImportModal.handleSave, the OK button, with an addDoc that settles before
\* the next event: addDoc of the row shown, then handleNext. A rejected
\* addDoc is logged and nothing else happens.
handleSave(ok) ==
    /\ isImportModalOpen
    /\ currentTransactionData # NoData
    /\ IF ok
         THEN /\ Len(transactions) + Len(incomes) + Len(liabilities) + Len(assets) - 1
                   < MaxEntries
              /\ transactions' =
                   IF ImportCollection(currentTransactionData) = "transactions"
                     THEN Append(transactions, ImportDocData(currentTransactionData))
                     ELSE transactions
              /\ incomes' =
                   IF ImportCollection(currentTransactionData) = "incomes"
                     THEN Append(incomes, ImportDocData(currentTransactionData))
                     ELSE incomes
              /\ SetImport(AfterNext)
              /\ isImportModalOpen'
                   = ClosedAfter(currentIndex, Len(transactionsToReview))
              /\ UNCHANGED <<saves, errorLog>>
         ELSE /\ Len(errorLog) < MaxErrors
              /\ errorLog' = Append(errorLog, "import")
              /\ UNCHANGED <<transactions, incomes, importVars>>
    /\ UNCHANGED <<zone, today, recurring, liabilities, budgets, selectedDate,
                   pending, dirty, settled, created, currencyRates, rateFetch,
                   assets, formVars>>

handleSaveOk == handleSave(TRUE)
handleSaveRejected == handleSave(FALSE)

\* ImportModal.handleSave up to its await: the OK button starts an addDoc of
\* the row shown. The continuation keeps the handleNext of the render the
\* click happened in, and with it that render's currentIndex and
\* transactionsToReview.length. The button stays enabled meanwhile.
handleSaveClick ==
    /\ isImportModalOpen
    /\ currentTransactionData # NoData
    /\ Len(saves) < MaxSaves
    /\ Len(transactions) + Len(incomes) + Len(liabilities) + Len(assets) - 1
          + Len(saves) < MaxEntries
    /\ saves' = Append(saves, [data |-> currentTransactionData,
                               index |-> currentIndex,
                               length |-> Len(transactionsToReview)])
    /\ UNCHANGED <<zone, today, recurring, transactions, incomes, liabilities,
                   budgets, selectedDate, pending, dirty, settled, created,
                   currencyRates, rateFetch, assets, formVars,
                   transactionsToReview, currentIndex, currentTransactionData,
                   isImportModalOpen, errorLog>>

\* The handleNext of a save's closure: the review and the index it sets.
StaleNext(save) ==
    IF save.index < save.length - 1
      THEN <<transactionsToReview, save.index + 1>>
      ELSE <<<<>>, 0>>

\* The rest of handleSave, when the addDoc of the k-th waiting save settles.
\* Resolved: the document is in the store and the closure's handleNext runs;
\* the effect on [transactionsToReview, currentIndex] sets the data of the
\* row shown anew if one of the two changed. Rejected: the error is logged.
SaveSettled(k, ok) ==
    /\ k \in 1..Len(saves)
    /\ saves' = [n \in 1..(Len(saves) - 1) |->
                   IF n < k THEN saves[n] ELSE saves[n + 1]]
    /\ IF ok
         THEN /\ transactions' =
                   IF ImportCollection(saves[k].data) = "transactions"
                     THEN Append(transactions, ImportDocData(saves[k].data))
                     ELSE transactions
              /\ incomes' =
                   IF ImportCollection(saves[k].data) = "incomes"
                     THEN Append(incomes, ImportDocData(saves[k].data))
                     ELSE incomes
              /\ transactionsToReview' = StaleNext(saves[k])[1]
              /\ currentIndex' = StaleNext(saves[k])[2]
              /\ currentTransactionData' =
                   IF StaleNext(saves[k]) = <<transactionsToReview, currentIndex>>
                     THEN currentTransactionData
                     ELSE CurrentData(StaleNext(saves[k])[1], StaleNext(saves[k])[2])
              /\ isImportModalOpen'
                   = ClosedAfter(saves[k].index, saves[k].length)
              /\ UNCHANGED errorLog
         ELSE /\ Len(errorLog) < MaxErrors
              /\ errorLog' = Append(errorLog, "import")
              /\ UNCHANGED <<transactions, incomes, transactionsToReview,
                             currentIndex, currentTransactionData,
                             isImportModalOpen>>
    /\ UNCHANGED <<zone, today, recurring, liabilities, budgets, selectedDate,
                   pending, dirty, settled, created, currencyRates, rateFetch,
                   assets, formVars>>

SaveResolved(k) == SaveSettled(k, TRUE)
SaveRejected(k) == SaveSettled(k, FALSE)

----------------------------------------------------------------------------
(* Rejected writes of the two entry forms.                                 *)

\* The fields of the EntryPage form that a successful submit resets, as the
\* user filled them in.
EntryFieldsOf(form) ==
    [amount |-> form.amount, description |-> form.description,
     liabilityName |-> form.liabilityName, assetName |-> form.assetName,
     isOpeningBalance |-> form.isOpeningBalance]

\* A catch block that also resets the form.
handleSubmitRejectedClearing(form) ==
    /\ Len(errorLog) < MaxErrors
    /\ errorLog' = Append(errorLog, "entry")
    /\ entryFields' = ClearedEntryFields
    /\ UNCHANGED <<zone, today, recurring, transactions, incomes, liabilities,
                   budgets, selectedDate, pending, dirty, settled, created,
                   currencyRates, rateFetch, assets, recurringFields,
                   importVars>>

\* EntryPage.handleSubmit on the fields `form`, the addDoc rejected: the
\* catch block logs the error; the fields stay as they were filled in.
handleSubmitRejected(form) ==
    /\ Len(errorLog) < MaxErrors
    /\ errorLog' = Append(errorLog, "entry")
    /\ entryFields' = EntryFieldsOf(form)
    /\ UNCHANGED <<zone, today, recurring, transactions, incomes, liabilities,
                   budgets, selectedDate, pending, dirty, settled, created,
                   currencyRates, rateFetch, assets, recurringFields,
                   importVars>>

\* RecurringPage.handleSubmit, the addDoc rejected: logged, the description
\* and the amount stay as they were filled in.
AddRecurringRejected(item) ==
    /\ Len(errorLog) < MaxErrors
    /\ errorLog' = Append(errorLog, "recurring")
    /\ recurringFields' = [description |-> item.details.description,
                           amount |-> item.details.amount]
    /\ UNCHANGED <<zone, today, recurring, transactions, incomes, liabilities,
                   budgets, selectedDate, pending, dirty, settled, created,
                   currencyRates, rateFetch, assets, entryFields, importVars>>

\* The header row of a bank statement and two of its rows: a debit and a
\* credit.
HeaderRow ==
    <<TextCell("Date"), TextCell("Description"), TextCell("Debit"),
      TextCell("Credit")>>
DebitRow == <<DateCell(30, 4, 2024), TextCell("shop"), NumberCell(5), EmptyCell>>
CreditRow == <<DateCell(1, 5, 2024), TextCell("pay"), EmptyCell, NumberCell(7)>>

WriteForms ==
    { Form("expense", FALSE, 20240401, 1, "EUR", "Grocery", ""),
      Form("savings", TRUE, 20240401, 243, "INR", "Grocery", "") }

WriteFiles == { <<HeaderRow, DebitRow, CreditRow>>, <<HeaderRow, CreditRow>> }

\* Writes: every addDoc of the three forms, accepted or rejected.
NextWrites ==
    \/ \E form \in WriteForms : handleSubmit(form)
    \/ \E form \in WriteForms : handleSubmitRejected(form)
    \/ \E item \in TemplateInputs : AddRecurring(item)
    \/ \E item \in TemplateInputs : AddRecurringRejected(item)
    \/ OpenImportModal
    \/ \E data \in WriteFiles : handleFileChange(data)
    \/ \E type \in {"expense", "savings", "income", "savingsWithdrawal"} :
          SetType(type)
    \/ handleNext
    \/ handleSaveOk
    \/ handleSaveRejected

SpecWrites == InitLedger /\ [][NextWrites]_vars

----------------------------------------------------------------------------
(* Imports: files of a header row and up to MaxRows rows.                  *)

MaxRows == 2

NoDateRow == <<EmptyCell, TextCell("fee"), NumberCell(5), EmptyCell>>
NoAmountRow == <<DateCell(2, 5, 2024), TextCell("note"), EmptyCell, EmptyCell>>
BlankRow == <<EmptyCell>>
BothRow == <<DateCell(3, 5, 2024), TextCell("swap"), NumberCell(5), NumberCell(7)>>
ZeroDebitRow ==
    <<DateCell(4, 5, 2024), TextCell("gift"), NumberCell(0), NumberCell(7)>>
\* The closing line of a statement: a text in the date column.
TotalRow == <<TextCell("Total"), EmptyCell, EmptyCell, NumberCell(7)>>

ImportRows ==
    {DebitRow, CreditRow, NoDateRow, NoAmountRow, BlankRow, BothRow,
     ZeroDebitRow, TotalRow}

ImportFiles ==
    { <<HeaderRow>> \o rows :
        rows \in UNION { [1..n -> ImportRows] : n \in 0..MaxRows } }

NextImport ==
    \/ OpenImportModal
    \/ \E data \in ImportFiles : handleFileChange(data)
    \/ \E type \in {"expense", "savings", "income", "savingsWithdrawal"} :
          SetType(type)
    \/ handleNext
    \/ handleSaveOk

\* The ImportModal reads no clock and no local time: one zone.
InitImport == InitLedger /\ zone = "UTC"

SpecImport == InitImport /\ [][NextImport]_vars

\* Reviews with saves that settle later, in any order. The rows of a file
\* have different dates, and a file is chosen only while the ledger holds no
\* document and no save is waiting: the documents of a behaviour come from
\* the rows of one review.
ReviewFiles ==
    { <<HeaderRow>> \o rows :
        rows \in { r \in UNION { [1..n -> {DebitRow, CreditRow, BothRow}] :
                                   n \in 1..MaxRows } :
                     \A i, j \in DOMAIN r : r[i] = r[j] => i = j } }

NextReview ==
    \/ OpenImportModal
    \/ /\ transactions = <<>> /\ incomes = <<>> /\ saves = <<>>
       /\ \E data \in ReviewFiles : handleFileChange(data)
    \/ \E type \in {"expense", "savings", "income", "savingsWithdrawal"} :
          SetType(type)
    \/ handleNext
    \/ handleSaveClick
    \/ \E k \in 1..MaxSaves : SaveResolved(k)
    \/ \E k \in 1..MaxSaves : SaveRejected(k)

SpecReview == InitImport /\ [][NextReview]_vars

----------------------------------------------------------------------------
(* The CSV export, and the import of an exported file.                     *)

\* v || ''
OrEmpty(v) == IF v \in {Undefined, ""} THEN "" ELSE v

\* a || b || ''
FirstOr(a, b) == IF a \in {Undefined, ""} THEN OrEmpty(b) ELSE a

\* The cell Papa.parse reads from the quoted value `"${String(v)}"` of a
\* text without quotes and line breaks: the text.
QuotedText(text) == IF text = "" THEN EmptyCell ELSE TextCell(text)

ExportHeaders ==
    <<TextCell("Date"), TextCell("Type"), TextCell("Description"),
      TextCell("Category/Source"), TextCell("Amount"), TextCell("Currency"),
      TextCell("Payer/Saver")>>

\* AnalysisPage.exportToCSV: the values of one document.
ExportValues(row) ==
    <<IsoCell(row.date),
      QuotedText(row.type),
      QuotedText(OrEmpty(Field(row, "description"))),
      QuotedText(FirstOr(Field(row, "category"), Field(row, "source"))),
      NumberCell(row.amount),
      QuotedText(row.currency),
      QuotedText(FirstOr(Field(row, "payer"), Field(row, "saver")))>>

\* allData = [...incomes, ...transactions]
allData == incomes \o transactions

\* AnalysisPage.exportToCSV: the rows of finance_history.csv.
exportToCSV ==
    <<ExportHeaders>> \o [n \in 1..Len(allData) |-> ExportValues(allData[n])]

\* The user exports the history and chooses the downloaded file in the
\* Import CSV dialog.
ImportExported == handleFileChange(exportToCSV)

RoundTripForms ==
    { Form(t, FALSE, d, AmountOf(t, FALSE), c, "Grocery", "") :
        t \in {"expense", "savings", "savingsWithdrawal", "income"},
        d \in {20240331, 20240401}, c \in Currencies }

NextRoundTrip ==
    \/ \E form \in RoundTripForms : handleSubmit(form)
    \/ OpenImportModal
    \/ ImportExported

SpecRoundTrip == InitImport /\ [][NextRoundTrip]_vars

----------------------------------------------------------------------------
(* Properties of the materializer.                                         *)

\* The dates of the documents a batch creates, and the cursors it writes.
SetDates(batch) ==
    SetData([n \in 1..Len(SelectSeq(batch, LAMBDA o : o.op = "set")) |->
               [data |-> SelectSeq(batch, LAMBDA o : o.op = "set")[n].data.date]])

CursorWrites(batch) ==
    SetData([n \in 1..Len(SelectSeq(batch, LAMBDA o : o.op = "update")) |->
               [data |-> SelectSeq(batch, LAMBDA o : o.op = "update")[n].lastProcessed]])

\* The run of the materializer on the templates now in the store.
RunNow == processRecurringTransactions(zone, RecurringData(recurring), today)

\* C1 (materializer idempotence): when a run's batch has been committed, a
\* second run on the templates as that commit left them, on the same today,
\* builds an empty batch: no document and no cursor update.
C1_Idempotent ==
    processRecurringTransactions(
        zone, RecurringData(BatchUpdates(recurring, RunNow)), today) = <<>>

\* The date k months after the date s, the day of the month kept.
PlusMonths(s, k) ==
    ((12 * (s \div 10000) + ((s \div 100) % 100) - 1 + k) \div 12) * 10000
      + (((12 * (s \div 10000) + ((s \div 100) % 100) - 1 + k) % 12) + 1) * 100
      + (s % 100)

\* The dates s + k months, k >= 1, strictly before the date t, in order.
DueDates(s, t) ==
    [k \in 1..Cardinality({j \in 1..36 : PlusMonths(s, j) < t}) |-> PlusMonths(s, k)]

\* C2 (multi-period catch-up): for a monthly template that was never
\* processed, one run creates exactly one document for each date startDate + k
\* months (k >= 1) strictly before today, no other document, and leaves the
\* cursor on the last of them; start 2024-01-15 and today 2024-05-01 give
\* 2024-02-15, 2024-03-15, 2024-04-15 and the cursor 2024-04-15.
C2_CatchUp ==
    \A id \in DOMAIN recurring :
        (recurring[id].frequency = "monthly" /\ recurring[id].lastProcessed = Null)
        => /\ SetDates(ProcessItem(zone, Merge([id |-> id], recurring[id]),
                                   TodayTime(zone, today)))
                = DueDates(recurring[id].startDate, today)
           /\ CursorWrites(ProcessItem(zone, Merge([id |-> id], recurring[id]),
                                       TodayTime(zone, today)))
                = DueDates(recurring[id].startDate, today)

\* The documents of the store that were materialized from template id.
Materialized(id) ==
    SelectSeq(transactions \o incomes, LAMBDA d : Field(d, "origin") = id)

\* C3 (materializer atomicity): a run sends all its document creations and
\* cursor updates as one batch; when the batch settles, either all of it has
\* been applied or, the batch rejected, the templates and the two collections
\* are what they were. So no template has a cursor without the document of
\* that date, and no document exists whose template has no cursor.
C3_Atomic ==
    /\ [](\A id \in DOMAIN recurring :
            /\ recurring[id].lastProcessed # Null =>
                 \E n \in 1..Len(Materialized(id)) :
                    Materialized(id)[n].date = recurring[id].lastProcessed
            /\ Materialized(id) # <<>> => recurring[id].lastProcessed # Null)
    /\ [][\A s \in Sessions :
            (settled[s] = "pending" /\ settled'[s] # "pending") =>
               \/ /\ settled'[s] = "resolved"
                  /\ recurring' = BatchUpdates(recurring, Head(pending[s]))
                  /\ transactions' =
                       transactions \o BatchSets(Head(pending[s]), "transactions")
                  /\ incomes' = incomes \o BatchSets(Head(pending[s]), "incomes")
               \/ /\ settled'[s] = "rejected"
                  /\ UNCHANGED <<recurring, transactions, incomes>>]_vars

\* A batch that creates documents was rejected, and the template it was
\* computed from has no cursor and no document.
C3_Witness ==
    \E s \in Sessions :
        /\ settled[s] = "rejected"
        /\ RunNow # <<>>
        /\ transactions = <<>> /\ incomes = <<>>
        /\ \E id \in DOMAIN recurring : recurring[id].lastProcessed = Null

\* C4 (no duplicate materialization): the store never holds two materialized
\* documents of the same template with the same date.
C4_NoDuplicates ==
    \A id \in TemplateIds :
        \A m, n \in 1..Len(Materialized(id)) :
            m # n => Materialized(id)[m].date # Materialized(id)[n].date

----------------------------------------------------------------------------
(* Properties of the Dashboard figures. Dates are compared as calendar     *)
(* dates, the YYYYMMDD numbers of the documents.                           *)

\* The first day of the month session s has selected, and the month of a date.
FirstOfSelected(s) ==
    10000 * selectedYear(zone, selectedDate[s])
      + 100 * (selectedMonth(zone, selectedDate[s]) + 1) + 1

MonthOf(date) == date \div 100

\* The dates of the documents of the ledger.
LedgerDates ==
    {transactions[n].date : n \in 1..Len(transactions)}
      \cup {incomes[n].date : n \in 1..Len(incomes)}

\* The sequence seq without its n-th element.
Without(seq, n) ==
    [k \in 1..(Len(seq) - 1) |-> IF k < n THEN seq[k] ELSE seq[k + 1]]

\* The sum of the amounts of the elements of seq at the indices in S.
RECURSIVE Total(_, _)
Total(seq, S) ==
    IF S = {} THEN 0
    ELSE seq[CHOOSE n \in S : TRUE].amount
           + Total(seq, S \ {CHOOSE n \in S : TRUE})

\* Incomes minus expense, savings and liabilityPayment transactions plus
\* savingsWithdrawal transactions, over the documents in currency c whose
\* date is one of dates.
LedgerNet(c, dates) ==
    Total(incomes, {n \in 1..Len(incomes) :
                      incomes[n].currency = c /\ incomes[n].date \in dates})
      - Total(transactions,
              {n \in 1..Len(transactions) :
                 /\ transactions[n].currency = c
                 /\ transactions[n].type \in {"expense", "savings", "liabilityPayment"}
                 /\ transactions[n].date \in dates})
      + Total(transactions,
              {n \in 1..Len(transactions) :
                 /\ transactions[n].currency = c
                 /\ transactions[n].type = "savingsWithdrawal"
                 /\ transactions[n].date \in dates})

\* The opening and cashFlow of the selected month of session s in currency c,
\* computed from the transactions txs and the incomes incs.
OpeningOf(s, c, txs, incs) ==
    Opening(zone, txs, incs, selectedYear(zone, selectedDate[s]),
            selectedMonth(zone, selectedDate[s]), c)

CashFlowOf(s, c, txs, incs) ==
    CashFlow(zone, txs, incs, selectedYear(zone, selectedDate[s]),
             selectedMonth(zone, selectedDate[s]), c)

\* C5 (month-boundary exactness): a transaction of a type that enters the
\* balances, or an income, dated the 1st of the selected month has its amount
\* in that month's cashFlow and not in its opening: without the document the
\* cashFlow differs by the amount and the opening is the same.
C5_MonthBoundary ==
    \A s \in Sessions, c \in Currencies :
        /\ \A n \in 1..Len(transactions) :
              ( /\ transactions[n].date = FirstOfSelected(s)
                /\ transactions[n].currency = c
                /\ transactions[n].type # "openingBalance" )
              => /\ OpeningOf(s, c, Without(transactions, n), incomes)
                      = OpeningOf(s, c, transactions, incomes)
                 /\ CashFlowOf(s, c, transactions, incomes)
                      - CashFlowOf(s, c, Without(transactions, n), incomes)
                      \in {transactions[n].amount, 0 - transactions[n].amount}
        /\ \A n \in 1..Len(incomes) :
              (incomes[n].date = FirstOfSelected(s) /\ incomes[n].currency = c)
              => /\ OpeningOf(s, c, transactions, Without(incomes, n))
                      = OpeningOf(s, c, transactions, incomes)
                 /\ CashFlowOf(s, c, transactions, incomes)
                      - CashFlowOf(s, c, transactions, Without(incomes, n))
                      = incomes[n].amount

\* The documents of seq in currency c.
InCurrency(seq, c) == SelectSeq(seq, LAMBDA d : d.currency = c)

\* C6 (currency isolation of balances): the opening, cashFlow and closing of a
\* currency are those of the ledger with every document of the other currency
\* taken away, so two ledgers that differ only in documents of the other
\* currency (one added, removed or changed) show the same three figures.
C6_CurrencyIsolation ==
    \A s \in Sessions, c \in Currencies :
        DashboardBalances(s, c)
          = calculateBalances(zone, InCurrency(transactions, c),
                              InCurrency(incomes, c),
                              selectedYear(zone, selectedDate[s]),
                              selectedMonth(zone, selectedDate[s]), c)

\* The ledger holds documents of both currencies that enter the figures of
\* the selected month: the EUR cashFlow and the INR cashFlow are both not zero.
C6_Witness ==
    /\ DashboardBalances("s1", "EUR").cashFlow # 0
    /\ DashboardBalances("s1", "INR").cashFlow # 0
    /\ DashboardBalances("s1", "EUR").closing # DashboardBalances("s1", "INR").closing

\* The indices of the liabilityPayment transactions of the liability id.
PaymentsOf(id) ==
    {n \in 1..Len(transactions) :
        /\ transactions[n].type = "liabilityPayment"
        /\ transactions[n].liabilityId = id}

\* C7 (liability balance and overpayment): the balance of every liability is
\* its totalAmount minus the sum of the amounts of the liabilityPayment
\* transactions with its id; it is below zero when they sum to more.
C7_LiabilityBalance ==
    \A n \in 1..Len(liabilities) :
        /\ liabilityDetails(transactions, liabilities)[n].balance
             = liabilities[n].totalAmount
                 - Total(transactions, PaymentsOf(liabilities[n].id))
        /\ Total(transactions, PaymentsOf(liabilities[n].id))
             > liabilities[n].totalAmount
           => liabilityDetails(transactions, liabilities)[n].balance < 0

\* A liability is overpaid: its payments sum to more than its totalAmount and
\* its balance is below zero.
C7_Witness ==
    \E n \in 1..Len(liabilities) :
        /\ Total(transactions, PaymentsOf(liabilities[n].id))
             > liabilities[n].totalAmount
        /\ liabilityDetails(transactions, liabilities)[n].balance < 0

\* The categories of the expense transactions dated in the selected month of
\* session s.
ExpenseCategories(s) ==
    {transactions[n].category :
        n \in {k \in 1..Len(transactions) :
                 /\ transactions[k].type = "expense"
                 /\ MonthOf(transactions[k].date) = MonthOf(FirstOfSelected(s))}}

\* C8 (budget union): the categories of the budget rows are the keys of the
\* selected month's budgets together with the categories of that month's
\* expense transactions; a category of the budgets only has actual = 0 and a
\* category of the expenses only has budget = 0.
C8_BudgetUnion ==
    \A s \in Sessions :
        /\ {row.category : row \in DashboardBudgetRows(s)}
             = DOMAIN BudgetsOf(zone, selectedDate[s]) \cup ExpenseCategories(s)
        /\ \A row \in DashboardBudgetRows(s) :
              /\ row.category \notin ExpenseCategories(s) => row.actual = 0
              /\ row.category \notin DOMAIN BudgetsOf(zone, selectedDate[s])
                   => row.budget = 0

\* C9 (opening balance formula): the opening of a currency is the incomes
\* minus the expense, savings and liabilityPayment transactions plus the
\* savingsWithdrawal transactions dated strictly before the 1st of the
\* selected month; no other type contributes.
C9_OpeningFormula ==
    \A s \in Sessions, c \in Currencies :
        DashboardBalances(s, c).opening
          = LedgerNet(c, {date \in LedgerDates : date < FirstOfSelected(s)})

\* C10 (cash-flow formula): the cashFlow of a currency is the same expression
\* over the documents whose date has the calendar month and year of the
\* selected month; no other document contributes.
C10_CashFlowFormula ==
    \A s \in Sessions, c \in Currencies :
        DashboardBalances(s, c).cashFlow
          = LedgerNet(c, {date \in LedgerDates :
                               MonthOf(date) = MonthOf(FirstOfSelected(s))})

\* The savings of person p in currency c as the Dashboard shows them.
SavingsOf(p, c) ==
    IF c = "EUR" THEN calculateDetailedSavings(transactions, p).eur
    ELSE calculateDetailedSavings(transactions, p).inr

\* The indices of the transactions of saver p in currency c whose type is one
\* of types.
SaverIndices(p, c, types) ==
    {n \in 1..Len(transactions) :
        /\ Field(transactions[n], "saver") = p
        /\ transactions[n].currency = c
        /\ transactions[n].type \in types}

\* C11 (per-person savings): the savings of a person in a currency are the
\* amounts of the person's savings and openingBalance transactions in that
\* currency minus the person's savingsWithdrawal transactions in it, whatever
\* their dates; the figure may be below zero.
C11_Savings ==
    \A p \in Persons, c \in Currencies :
        SavingsOf(p, c)
          = Total(transactions, SaverIndices(p, c, {"savings", "openingBalance"}))
              - Total(transactions, SaverIndices(p, c, {"savingsWithdrawal"}))

\* One person's savings are below zero, the other's are fed by an opening
\* balance, and the month of a counted transaction is not the selected one.
C11_Witness ==
    /\ \E p \in Persons, c \in Currencies : SavingsOf(p, c) < 0
    /\ \E p \in Persons, c \in Currencies :
          /\ SavingsOf(p, c) > 0
          /\ SaverIndices(p, c, {"openingBalance"}) # {}
    /\ \E n \in 1..Len(transactions) :
          /\ transactions[n].type \in {"savingsWithdrawal", "openingBalance"}
          /\ MonthOf(transactions[n].date) # MonthOf(FirstOfSelected("s1"))

\* The sum of the values of the function f at the arguments in S.
RECURSIVE TotalOf(_, _)
TotalOf(f, S) ==
    IF S = {} THEN 0
    ELSE f[CHOOSE n \in S : TRUE] + TotalOf(f, S \ {CHOOSE n \in S : TRUE})

\* The two net worth figures of the Dashboard.
NetWorthShown(c) ==
    IF c = "EUR" THEN netWorthEUR(assets, transactions, liabilities)
    ELSE netWorthINR(assets, transactions, liabilities)

\* The savings of person p in currency c: deposits and opening balances minus
\* withdrawals.
SavingsSum(p, c) ==
    Total(transactions, SaverIndices(p, c, {"savings", "openingBalance"}))
      - Total(transactions, SaverIndices(p, c, {"savingsWithdrawal"}))

\* C12 (net worth formula): the net worth in a currency is the values of the
\* assets in that currency plus the savings of Husband and of Wife in it minus
\* the balances of the liabilities in it; nothing of the other currency and no
\* exchange rate enters the figure.
C12_NetWorth ==
    \A c \in Currencies :
        NetWorthShown(c)
          = TotalOf([n \in 1..Len(assets) |-> assets[n].value],
                    {n \in 1..Len(assets) : assets[n].currency = c})
              + SavingsSum("Husband", c) + SavingsSum("Wife", c)
              - TotalOf([n \in 1..Len(liabilities) |->
                           liabilities[n].totalAmount
                             - Total(transactions, PaymentsOf(liabilities[n].id))],
                        {n \in 1..Len(liabilities) : liabilities[n].currency = c})

\* The EUR figure has all three terms in it: an asset, savings of Wife and
\* the liability; the INR figure has none.
C12_Witness ==
    /\ \E n \in 1..Len(assets) : assets[n].currency = "EUR"
    /\ SavingsSum("Wife", "EUR") = 3
    /\ NetWorthShown("EUR") = 729 + 3 - 10
    /\ NetWorthShown("INR") = 0

\* The budget entry of a category in the selected month of session s, 0 when
\* the month's budgets have no entry for it.
BudgetEntry(s, category) ==
    IF category \in DOMAIN BudgetsOf(zone, selectedDate[s])
      THEN BudgetsOf(zone, selectedDate[s])[category] ELSE 0

\* C13 (over-budget flag): a category's row is flagged over budget exactly
\* when its actual is above its budget and the budget is above 0; a category
\* with no budget entry, or with a budget of 0, is never flagged.
C13_OverBudgetFlag ==
    \A s \in Sessions :
        \A row \in DashboardBudgetRows(s) :
            /\ OverBudgetShown(row) <=> (row.actual > row.budget /\ row.budget > 0)
            /\ BudgetEntry(s, row.category) = 0 => ~OverBudgetShown(row)

\* One category is flagged, and another has spend, no budget entry and no
\* flag.
C13_Witness ==
    /\ \E row \in DashboardBudgetRows("s1") :
          OverBudgetShown(row) /\ BudgetEntry("s1", row.category) > 0
    /\ \E row \in DashboardBudgetRows("s1") :
          /\ row.actual > 0
          /\ row.category \notin DOMAIN BudgetsOf(zone, selectedDate["s1"])
          /\ ~OverBudgetShown(row)

\* C14 (immutability and full history): every transaction and every income
\* document that is in the store stays in it with the fields it has, so each
\* step leaves the two collections as they were or with documents added
\* after the ones they held.
C14_FullHistory ==
    [][/\ Len(transactions') >= Len(transactions)
       /\ SubSeq(transactions', 1, Len(transactions)) = transactions
       /\ Len(incomes') >= Len(incomes)
       /\ SubSeq(incomes', 1, Len(incomes)) = incomes]_vars

\* C15 (rate-fetch fallback): when the fetch of the rates has failed, the
\* rates used are EUR = 1 and INR = 90; in every state the INR rate is
\* defined. (The failure leaves the listeners, the batches and the store as
\* they are: RateFetchSettles changes nothing else.)
C15_RateFallback ==
    /\ rateFetch = "failed" => currencyRates = [EUR |-> 1, INR |-> 90]
    /\ "INR" \in DOMAIN currencyRates
    /\ currencyRates.INR > 0

\* The form whose addDoc was rejected in the last logged failure.
LastError(log) == log[Len(log)]

\* C16: a step in which an addDoc of the entry form, the recurring form or
\* the CSV review is rejected changes no collection of the store and queues
\* no write; it leaves the CSV review on the same row with the same data, and
\* the fields of the entry form and of the recurring form hold what was
\* filled in, none of them reset.
C16_WriteFailure ==
    [][(/\ Len(errorLog') > Len(errorLog)
        /\ LastError(errorLog') \in {"entry", "recurring", "import"}) =>
         /\ UNCHANGED <<recurring, transactions, incomes, liabilities, assets,
                        budgets, pending>>
         /\ UNCHANGED importVars
         /\ LastError(errorLog') = "entry" =>
              /\ entryFields'.amount # EmptyNumber
              /\ entryFields' # ClearedEntryFields
              /\ UNCHANGED recurringFields
         /\ LastError(errorLog') = "recurring" =>
              /\ recurringFields'.amount # EmptyNumber
              /\ recurringFields'.description # ""
              /\ UNCHANGED entryFields
         /\ LastError(errorLog') = "import" => UNCHANGED formVars]_vars

\* C16 witness: the first row of a file was saved, the type of the second
\* was changed by the user and its addDoc was rejected; the review still
\* shows the second row with the type chosen.
C16_Witness ==
    /\ errorLog = <<"import">>
    /\ Len(transactions) = 1
    /\ Len(transactionsToReview) = 2
    /\ currentIndex = 1
    /\ currentTransactionData # NoData
    /\ currentTransactionData.type = "savingsWithdrawal"

\* The rows of a file after its first that have a non-empty date and a
\* non-empty debit or credit, in file order.
RowsWithData(data) ==
    SelectSeq(SubSeq(data, 2, Len(data)),
              LAMBDA row : /\ Len(row) >= 1
                           /\ row[1] # EmptyCell
                           /\ \E k \in {3, 4} : k <= Len(row) /\ row[k] # EmptyCell)

\* C17: when a file is read, the rows for review are, in file order, the
\* rows after the header row that have a non-empty date and a non-empty
\* debit or credit: as many, each with the description, the debit and the
\* credit of its row.
C17_RowFilter ==
    [][\A data \in ImportFiles :
          handleFileChange(data) =>
             /\ Len(transactionsToReview') = Len(RowsWithData(data))
             /\ \A n \in 1..Len(RowsWithData(data)) :
                   /\ transactionsToReview'[n].description
                        = CellText(RowAt(RowsWithData(data)[n], 2))
                   /\ transactionsToReview'[n].debit = RowAt(RowsWithData(data)[n], 3)
                   /\ transactionsToReview'[n].credit = RowAt(RowsWithData(data)[n], 4)]_vars

\* The row of the review that is shown, and a cell that holds a number > 0.
RowShown == transactionsToReview[currentIndex + 1]
IsPositive(cell) == cell.kind = "number" /\ cell.value > 0

\* The documents of the two collections, and the last of a sequence.
Ledger == transactions \o incomes
Last(seq) == seq[Len(seq)]

\* C18: (1) the row shown has the amount of its debit if that is > 0, and
\* else of its credit if that is > 0, and a type of the debit side (expense,
\* savings) or of the credit side (income, savingsWithdrawal) accordingly;
\* (2) every document of the import has currency EUR, and is in incomes if
\* and only if its type is income; (3) a row that comes to be shown has type
\* expense if its debit is > 0, and else income if its credit is > 0;
\* (4) the user's choice of a type is taken, and a save writes one document
\* with the date, the amount and the type of the row as shown.
C18_Defaulting ==
    /\ [](currentTransactionData # NoData =>
            /\ IsPositive(RowShown.debit) =>
                 /\ currentTransactionData.amount = RowShown.debit.value
                 /\ currentTransactionData.type \in {"expense", "savings"}
            /\ ~IsPositive(RowShown.debit) /\ IsPositive(RowShown.credit) =>
                 /\ currentTransactionData.amount = RowShown.credit.value
                 /\ currentTransactionData.type \in {"income", "savingsWithdrawal"})
    /\ [](/\ \A n \in 1..Len(Ledger) : Ledger[n].currency = "EUR"
          /\ \A n \in 1..Len(transactions) : transactions[n].type # "income"
          /\ \A n \in 1..Len(incomes) : incomes[n].type = "income")
    /\ [][(/\ currentTransactionData' # NoData
           /\ <<transactionsToReview', currentIndex'>>
                # <<transactionsToReview, currentIndex>>) =>
            /\ IsPositive(RowShown'.debit) => currentTransactionData'.type = "expense"
            /\ ~IsPositive(RowShown'.debit) /\ IsPositive(RowShown'.credit) =>
                 currentTransactionData'.type = "income"]_vars
    /\ [][\A type \in {"expense", "savings", "income", "savingsWithdrawal"} :
            SetType(type) => currentTransactionData'.type = type]_vars
    /\ [][Ledger' # Ledger =>
            /\ Len(Ledger') = Len(Ledger) + 1
            /\ \E docs \in {transactions', incomes'} :
                 /\ docs # <<>>
                 /\ Last(docs).type = currentTransactionData.type
                 /\ Last(docs).amount = currentTransactionData.amount
                 /\ Last(docs).date = currentTransactionData.date
                 /\ Len(docs) = Len(IF docs = incomes' THEN incomes
                                    ELSE transactions) + 1]_vars

\* C18 witness: of a file with a debit of 5 and a credit of 7 the first row
\* was saved with the type changed to savings, the second with its default.
C18_Witness ==
    /\ Len(transactions) = 1
    /\ transactions[1].type = "savings"
    /\ transactions[1].amount = 5
    /\ transactions[1].currency = "EUR"
    /\ Len(incomes) = 1
    /\ incomes[1].type = "income"
    /\ incomes[1].amount = 7
    /\ incomes[1].date = 20240501

\* C19: when the exported file is imported, the review has one row for each
\* exported document, in the order of the export, with the date of the
\* document and, by the import's defaults, its amount.
C19_RoundTrip ==
    [][ImportExported =>
         /\ Len(transactionsToReview') = Len(allData)
         /\ \A n \in 1..Len(allData) :
               /\ transactionsToReview'[n].date = allData[n].date
               /\ DefaultData(transactionsToReview'[n]).amount = allData[n].amount]_vars

\* C20: the batch a run of the materializer queues creates only documents
\* dated before the local date of the run, and writes only cursors before
\* that date.
C20_BeforeToday ==
    [][\A s \in Sessions :
          Len(pending'[s]) > Len(pending[s]) =>
             /\ \A n \in 1..Len(SetDates(Last(pending'[s]))) :
                   SetDates(Last(pending'[s]))[n] < today
             /\ \A n \in 1..Len(CursorWrites(Last(pending'[s]))) :
                   CursorWrites(Last(pending'[s]))[n] < today]_vars

\* The dates of the documents a batch creates from template id, and the
\* greatest of a set of dates.
DatesFor(batch, id) ==
    {batch[n].data.date : n \in {m \in 1..Len(batch) :
                                   batch[m].op = "set" /\ batch[m].data.origin = id}}
Latest(dates) == CHOOSE d \in dates : \A e \in dates : e <= d

C22_CursorMonotone ==
    [][\A id \in DOMAIN recurring \cap DOMAIN recurring' :
          recurring[id].lastProcessed # Null =>
             /\ recurring'[id].lastProcessed # Null
             /\ recurring'[id].lastProcessed >= recurring[id].lastProcessed]_vars

\* The month of a date as 12 * year + month, and the number of days of the
\* month of a date.
MonthNumber(date) == 12 * (date \div 10000) + ((date \div 100) % 100)
DaysInMonthOf(date) ==
    MakeDay(date \div 10000, (date \div 100) % 100, 1)
      - MakeDay(date \div 10000, ((date \div 100) % 100) - 1, 1)

\* The dates of the documents a run now creates from template id.
RunDates(id) ==
    SetDates(ProcessItem(zone, Merge([id |-> id], recurring[id]),
                         TodayTime(zone, today)))

\* The date a run now starts from for template id.
CursorOf(id) ==
    IF recurring[id].lastProcessed # Null THEN recurring[id].lastProcessed
    ELSE recurring[id].startDate

\* C23: the n-th document a run creates from a monthly template is dated in
\* the n-th calendar month after the month of the cursor (the start date of a
\* template never processed), on the day of the month of the start date if
\* that month has such a day.
C23_DayOfMonth ==
    \A id \in DOMAIN recurring :
        recurring[id].frequency = "monthly" =>
           \A n \in 1..Len(RunDates(id)) :
              /\ MonthNumber(RunDates(id)[n]) = MonthNumber(CursorOf(id)) + n
              /\ recurring[id].startDate % 100 <= DaysInMonthOf(RunDates(id)[n])
                   => RunDates(id)[n] % 100 = recurring[id].startDate % 100

\* C24: (1) a run now creates from no template a document dated on or before
\* the start date of the template, and no document in the store that was
\* created from a template is; (2) from a template whose start date is not
\* before today a run now builds no operation: no document, no cursor update.
C24_FirstOccurrence ==
    \A id \in DOMAIN recurring :
        /\ \A n \in 1..Len(RunDates(id)) : RunDates(id)[n] > recurring[id].startDate
        /\ \A n \in 1..Len(Ledger) :
              Field(Ledger[n], "origin") = id
                 => Ledger[n].date > recurring[id].startDate
        /\ recurring[id].startDate >= today
             => ProcessItem(zone, Merge([id |-> id], recurring[id]),
                            TodayTime(zone, today)) = <<>>

\* C24 witness: west of UTC, on the start date of a template never
\* processed, the sessions have run and the store has settled their
\* batches: no document, no cursor.
C24_Witness ==
    /\ zone = "America/Bogota"
    /\ today = 20240515
    /\ "r1" \in DOMAIN recurring
    /\ recurring["r1"].startDate = 20240515
    /\ recurring["r1"].lastProcessed = Null
    /\ \A s \in Sessions : ~dirty[s] /\ pending[s] = <<>> /\ settled[s] = "resolved"
    /\ Ledger = <<>>

\* The operations of a batch that create a document.
SetsOf(batch) == SelectSeq(batch, LAMBDA o : o.op = "set")

WholePeriods(s, t, months) ==
    Cardinality({k \in 1..36 : PlusMonths(s, months * k) <= t})

\* C26: for every template in the store, monthly or yearly, the loop of a
\* run now ends, after at most one pass more than there are whole periods
\* from the cursor (the start date of a template never processed) to today.
C26_LoopTerminates ==
    \A id \in DOMAIN recurring :
        recurring[id].frequency \in {"monthly", "yearly"} =>
           Iterations(zone, recurring[id].frequency, ParseISODate(CursorOf(id)),
                      TodayTime(zone, today))
             <= WholePeriods(CursorOf(id), today,
                             IF recurring[id].frequency = "monthly" THEN 1 ELSE 12) + 1

\* C26 witness: a run has moved the cursor of a monthly template to
\* 2024-04-15; on 2024-05-15, west of UTC, the loop of the next run makes two
\* passes, one more than the one whole month from the cursor.
C26_Witness ==
    /\ zone = "America/Bogota"
    /\ today = 20240515
    /\ "r1" \in DOMAIN recurring
    /\ recurring["r1"].frequency = "monthly"
    /\ recurring["r1"].lastProcessed = 20240415
    /\ Iterations(zone, "monthly", ParseISODate(20240415), TodayTime(zone, today)) = 2

\* No listener is to be called and no batch is on its way.
Quiescent == \A s \in Sessions : ~dirty[s] /\ pending[s] = <<>>

\* C27: the feedback loop left to itself comes to rest: from some point on
\* no listener is to be called and no batch is on its way (so that no run
\* and no write follows), and every session's last batch was accepted.
C27_Quiescence ==
    <>[](Quiescent /\ \A s \in Sessions : settled[s] = "resolved")

\* C27 witness: the loop is at rest after both sessions have materialized
\* the three missed months of a template: six documents, the cursor on the
\* last month.
C27_Witness ==
    /\ Quiescent
    /\ \A s \in Sessions : settled[s] = "resolved"
    /\ Len(transactions) = 6
    /\ recurring["r1"].lastProcessed = 20240415

\* The months of 2024 the dates of the ledger fall in, 0-based: March to May.
ContinuityMonths == 2..4

\* The balances of currency c for the month m of 2024 (0-based).
BalancesIn(c, m) == calculateBalances(zone, transactions, incomes, 2024, m, c)

\* The 1st of the month after the month m of 2024 (0-based), as a date.
FirstOfNext(m) == 20240001 + 100 * (m + 2)

\* The balances b of a month and those of the month that follows are
\* continuous: b's closing balance is its opening balance plus its cash flow,
\* and is the opening balance of the next month.
Continuous(b, next) ==
    /\ b.closing = b.opening + b.cashFlow
    /\ b.closing = next.opening

\* A document is counted once: in the opening balance (before) or in the
\* cash flow (inMonth), never in both, and in one of them if it is dated
\* before the 1st of the month that follows (early).
CountedOnce(before, inMonth, early) ==
    IF before THEN ~inMonth ELSE (early => inMonth)

\* C28: for every currency and every month, (1) the closing balance is the
\* opening balance plus the cash flow, (2) it is the opening balance of the
\* month that follows, and (3) every document dated before the 1st of the
\* month that follows is either among those of the opening balance or among
\* those of the cash flow, never both.
C28_Continuity ==
    \A m \in ContinuityMonths :
        /\ \A c \in Currencies : Continuous(BalancesIn(c, m), BalancesIn(c, m + 1))
        /\ \A n \in 1..Len(Ledger) :
              CountedOnce(
                  filterByDate(zone, Ledger[n], NewLocalDate(zone, 2024, m, 1)),
                  filterByMonth(zone, Ledger[n], 2024, m),
                  Ledger[n].date < FirstOfNext(m))

\* C28 witness: west of UTC, an income of 27 dated 2024-05-01 and an expense
\* of 1 dated 2024-03-31, both in EUR: the closing balance of April, 26, is
\* the opening balance of May.
C28_Witness ==
    /\ zone = "America/Bogota"
    /\ Len(incomes) = 1 /\ incomes[1].date = 20240501 /\ incomes[1].currency = "EUR"
    /\ Len(transactions) = 1 /\ transactions[1].date = 20240331
    /\ transactions[1].type = "expense" /\ transactions[1].currency = "EUR"
    /\ BalancesIn("EUR", 3).closing = 26
    /\ BalancesIn("EUR", 4).opening = 26


\* The documents of a collection that are denominated in currency c.
OnlyIn(docs, c) ==
    SelectSeq(docs, LAMBDA d : Field(d, "currency") = c)

\* The net worth in currency c computed from the documents denominated in c
\* alone.
NetWorthWithin(c) ==
    IF c = "EUR"
      THEN netWorthEUR(OnlyIn(assets, c), OnlyIn(transactions, c),
                       OnlyIn(liabilities, c))
      ELSE netWorthINR(OnlyIn(assets, c), OnlyIn(transactions, c),
                       OnlyIn(liabilities, c))

\* The balance the Dashboard shows for the liability at position n.
BalanceShown(n) == liabilityDetails(transactions, liabilities)[n].balance

\* The step appends a liabilityPayment in one currency that references the
\* liability at position n, which is denominated in the other currency.
CrossCurrencyPayment(n) ==
    /\ Len(transactions') = Len(transactions) + 1
    /\ liabilities' = liabilities
    /\ Last(transactions').type = "liabilityPayment"
    /\ Last(transactions').liabilityId = liabilities[n].id
    /\ Last(transactions').currency # liabilities[n].currency

\* C29 (currency isolation of net worth): the net worth in a currency is the
\* figure computed from the documents denominated in that currency alone, and
\* a liabilityPayment in one currency that references a liability of the
\* other currency changes neither the balance of the liability nor the net
\* worth in the liability's currency.
C29_CurrencyIsolation ==
    [][ /\ \A c \in Currencies : NetWorthShown(c)' = NetWorthWithin(c)'
        /\ \A n \in 1..Len(liabilities) :
              CrossCurrencyPayment(n) =>
                  /\ BalanceShown(n)' = BalanceShown(n)
                  /\ NetWorthShown(liabilities[n].currency)'
                       = NetWorthShown(liabilities[n].currency) ]_vars


\* The documents of the ledger that an import can have appended.
Imported == transactions \o incomes

\* C30 (each row is committed at most once): whatever the OK and Skip clicks
\* and the order in which the saves settle, no two documents come from the
\* same row of the review; while rows remain the index is one of 0..length-1;
\* and when the review ends the list is emptied, the index is 0 and stays 0,
\* and the modal is closed.
C30_CommitOnce ==
    [][ /\ \A i, j \in 1..Len(Imported') :
              Imported'[i].date = Imported'[j].date => i = j
        /\ transactionsToReview' # <<>> =>
              currentIndex' \in 0..(Len(transactionsToReview') - 1)
        /\ transactionsToReview' = <<>> => currentIndex' = 0
        /\ (transactionsToReview # <<>> /\ transactionsToReview' = <<>>) =>
              ~isImportModalOpen' ]_vars

====
